---- MODULE Spec2Model ----
(***************************************************************************)
(* Payment confirmation and reconciliation subsystem of ChipIn.            *)
(*                                                                         *)
(* The store holds Contribution and DreamBoard records.  Three webhook     *)
(* handlers (PayFast, Ozow, SnapScan) and the reconciliation job read and  *)
(* update it.  Every `await` on the store is a separate atomic step, so    *)
(* concurrent requests interleave exactly at the store operations.         *)
(***************************************************************************)
EXTENDS Integers, Sequences, FiniteSets, Bags, TLC

(***************************************************************************)
(* Bounds of the model.                                                    *)
(***************************************************************************)
MaxInFlight == 2
MaxFailures == 1
MaxAmount == 3
MaxTime == 6
MaxLimit == 2
MaxBurst == 1
TickSeconds == 30
MaxExpiresIn == 200
MaxPayoutRequests == 2

(***************************************************************************)
(* Values.                                                                 *)
(***************************************************************************)
Null == -1
ANONYMOUS_RATE_LIMIT == 1000
NoContribution == 0
NoStatus == "none"

Providers == {"payfast", "ozow", "snapscan"}
PaymentStatuses == {"pending", "processing", "completed", "failed", "refunded"}
ProviderStatuses == {"completed", "processing", "failed"}
RawStatuses == {"PAID", "COMPLETE", "FAILED", "PENDING", NoStatus}
Amounts == (0..MaxAmount) \cup {Null}

(***************************************************************************)
(* Persisted records.  Only paymentStatus and the board status change in   *)
(* this subsystem; every other column is fixed once the row is created.    *)
(***************************************************************************)
Contribs == {1, 2, 3}
Boards == {1, 2}

\* contributions.payment_provider: one contribution per provider; or two Ozow
\* contributions created within one window; or an Ozow and a SnapScan one
\* created within one window
SeparateProviders == [c \in Contribs |-> CASE c = 1 -> "ozow" [] c = 2 -> "snapscan" [] OTHER -> "payfast"]
SharedProvider == [c \in Contribs |-> CASE c = 1 -> "snapscan" [] OTHER -> "ozow"]
MixedProviders == [c \in Contribs |-> CASE c = 3 -> "snapscan" [] OTHER -> "ozow"]
dreamBoardId == [c \in Contribs |-> IF c = 3 THEN 2 ELSE 1]
amountCents == [c \in Contribs |-> 2]
feeCents == [c \in Contribs |-> 1]
netCents == [c \in Contribs |-> amountCents[c] - feeCents[c]]
goalCents == [b \in Boards |-> IF b = 1 THEN 2 ELSE 1]

VARIABLES
  paymentStatus,   \* contributions.payment_status, per contribution
  boardStatus,     \* dream_boards.status, per board
  hook,            \* the webhook requests being handled (a bag of handler states)
  last,            \* the answer to the latest traced webhook request, once it is given
  owed,            \* a delivery answered 5xx that the provider still retries
  failures,        \* store failures injected so far
  run,             \* the reconciliation job: the state of its current or latest run
  paymentProvider, \* contributions.payment_provider, per contribution (never updated)
  kv,              \* the rate-limit counters of one API key in the key-value store
  calls,           \* the enforceApiRateLimit calls in progress (a bag of call states)
  result,          \* what the latest API request or rate-limit call returned
  token,           \* the Ozow access token: the cache entry and the latest answer
  payout,          \* one row of payouts: type, status, externalRef, errorMessage
  exec,            \* executeAutomatedPayout: the state of its current or latest call
  held,            \* a second request of the reconciliation job, while the first one
                   \* runs (<<>> where requests are made one at a time)
  ledger,          \* what the providers hold for each contribution's reference (<<>>
                   \* where each listing is free to hold anything); with payouts, the
                   \* number of requests the provider has received for the payout
  mapped           \* the latest call of mapOzowStatus or mapSnapScanStatus: the payload
                   \* and the status returned

vars == <<paymentStatus, boardStatus, hook, last, owed, failures, run,
          paymentProvider, kv, calls, result, token, payout, exec, held, ledger, mapped>>

\* the state of the parts that the webhooks, the job and the limiter leave alone
others == <<token, payout, exec, held, ledger, mapped>>

\* the state of the webhooks, the job and the limiter
payments == <<paymentStatus, boardStatus, hook, last, owed, failures, run,
              paymentProvider, kv, calls, result>>

RECURSIVE SumNet(_, _)
SumNet(S, ps) ==
  IF S = {} THEN 0
  ELSE LET c == CHOOSE x \in S : TRUE
       IN (IF ps[c] = "completed" THEN netCents[c] ELSE 0) + SumNet(S \ {c}, ps)

\* the sum taken over every contribution of the board, whatever its status
raisedCentsAnyStatus(b, ps) ==
  SumNet({c \in Contribs : dreamBoardId[c] = b}, [c \in Contribs |-> "completed"])

\* COALESCE(SUM(net_cents), 0) over the board's completed contributions
raisedCents(b, ps) == SumNet({c \in Contribs : dreamBoardId[c] = b}, ps)

(***************************************************************************)
(* Provider adapters: status mapping.  The vendor string is lower-cased    *)
(* and matched against the success and failure vocabularies.               *)
(***************************************************************************)
toLowerCase(raw) ==
  CASE raw = "PAID" -> "paid"
    [] raw = "COMPLETE" -> "complete"
    [] raw = "FAILED" -> "failed"
    [] raw = "PENDING" -> "pending"
    [] raw = "Successful" -> "successful"
    [] raw = "Unsuccessful" -> "unsuccessful"
    [] raw = "UNPAID" -> "unpaid"
    [] raw = "Incomplete" -> "incomplete"
    [] raw = "Cancelled" -> "cancelled"
    [] raw = "Not Rejected" -> "not rejected"
    [] OTHER -> raw

OzowSuccess == {"paid", "completed", "success", "successful"}
SnapScanSuccess == {"paid", "complete", "completed", "success", "successful"}
FailureVocabulary == {"failed", "cancelled", "canceled", "expired", "rejected"}

\* String.prototype.includes
includes(string, value) ==
  \E i \in 1..(Len(string) - Len(value) + 1) : SubSeq(string, i, i + Len(value) - 1) = value

\* vocabulary.some((value) => normalized.includes(value))
some(vocabulary, normalized) == \E value \in vocabulary : includes(normalized, value)

\* !rawStatus
missing(raw) == raw = NoStatus \/ raw = ""

mapOzowStatus(raw) ==
  IF missing(raw) THEN "processing"
  ELSE IF some(OzowSuccess, toLowerCase(raw)) THEN "completed"
  ELSE IF some(FailureVocabulary, toLowerCase(raw)) THEN "failed"
  ELSE "processing"

\* the mapping that takes a string of neither vocabulary for a payment not yet begun
mapSnapScanStatusPending(raw) ==
  IF missing(raw) THEN "processing"
  ELSE IF some(SnapScanSuccess, toLowerCase(raw)) THEN "completed"
  ELSE IF some(FailureVocabulary, toLowerCase(raw)) THEN "failed"
  ELSE "pending"

mapSnapScanStatus(raw) ==
  IF missing(raw) THEN "processing"
  ELSE IF some(SnapScanSuccess, toLowerCase(raw)) THEN "completed"
  ELSE IF some(FailureVocabulary, toLowerCase(raw)) THEN "failed"
  ELSE "processing"

\* data.status ?? data.transactionStatus ?? payload.status
ozowRawStatus(payload) ==
  IF payload.data.status # NoStatus THEN payload.data.status
  ELSE IF payload.data.transactionStatus # NoStatus THEN payload.data.transactionStatus
  ELSE payload.status

snapScanRawStatus(payload) == payload.status

\* vendor strings of either vocabulary, strings that hold a word of a
\* vocabulary inside another word, the empty string and no status at all
VendorStatuses ==
  RawStatuses \cup {"", "Successful", "Unsuccessful", "UNPAID", "Incomplete", "Cancelled",
                    "Not Rejected"}

OzowPayloads ==
  [data : [status : VendorStatuses, transactionStatus : VendorStatuses], status : VendorStatuses]

SnapScanPayloads == [status : VendorStatuses]

mapPayfastStatus(raw) ==
  IF raw = "COMPLETE" THEN "completed"
  ELSE IF raw = "FAILED" THEN "failed"
  ELSE "processing"

mapStatus(provider, raw) ==
  CASE provider = "ozow" -> mapOzowStatus(raw)
    [] provider = "snapscan" -> mapSnapScanStatus(raw)
    [] OTHER -> mapPayfastStatus(raw)

\* the status each handler maps the vendor strings of its callbacks to
mappedStatus == [provider \in Providers |-> [raw \in RawStatuses |-> mapStatus(provider, raw)]]

(***************************************************************************)
(* Webhook handlers, up to the store lookup.  A request carries at most    *)
(* one defect; the handler answers with the code of the check that fails.  *)
(***************************************************************************)
PayfastDefects == {"none", "rate_limited", "bad_signature", "bad_source", "bad_merchant",
                   "stale_timestamp", "no_timestamp", "bad_itn", "no_pf_payment_id",
                   "no_reference"}
SnapScanDefects == {"none", "rate_limited", "bad_signature", "bad_payload",
                    "stale_timestamp", "no_timestamp", "no_reference"}
OzowDefects == {"none", "rate_limited", "bad_signature", "no_reference"}

DefectsOf(provider) ==
  CASE provider = "payfast" -> PayfastDefects
    [] provider = "snapscan" -> SnapScanDefects
    [] OTHER -> OzowDefects

\* the PayFast checks rejecting a notification that carries no timestamp
PayfastPreChecksStrict(defect) ==
  CASE defect = "rate_limited" -> "rate_limited"
    [] defect = "bad_signature" -> "invalid_signature"
    [] defect = "bad_source" -> "invalid_source"
    [] defect = "bad_merchant" -> "invalid_merchant"
    [] defect \in {"stale_timestamp", "no_timestamp"} -> "invalid_timestamp"
    [] defect = "bad_itn" -> "invalid_itn"
    [] defect = "no_pf_payment_id" -> "missing_pf_payment_id"
    [] defect = "no_reference" -> "missing_reference"
    [] OTHER -> "ok"

PayfastPreChecks(defect) ==
  CASE defect = "rate_limited" -> "rate_limited"
    [] defect = "bad_signature" -> "invalid_signature"
    [] defect = "bad_source" -> "invalid_source"
    [] defect = "bad_merchant" -> "invalid_merchant"
    [] defect = "stale_timestamp" -> "invalid_timestamp"
    [] defect = "bad_itn" -> "invalid_itn"
    [] defect = "no_pf_payment_id" -> "missing_pf_payment_id"
    [] defect = "no_reference" -> "missing_reference"
    [] OTHER -> "ok"

\* the SnapScan checks answering a payload that does not parse with a code of their own
SnapScanPreChecksOwnCode(defect) ==
  CASE defect = "rate_limited" -> "rate_limited"
    [] defect = "bad_signature" -> "invalid_signature"
    [] defect = "bad_payload" -> "invalid_json"
    [] defect = "stale_timestamp" -> "invalid_timestamp"
    [] defect = "no_reference" -> "missing_reference"
    [] OTHER -> "ok"

SnapScanPreChecks(defect) ==
  CASE defect = "rate_limited" -> "rate_limited"
    [] defect = "bad_signature" -> "invalid_signature"
    [] defect = "bad_payload" -> "invalid_payload"
    [] defect = "stale_timestamp" -> "invalid_timestamp"
    [] defect = "no_reference" -> "missing_reference"
    [] OTHER -> "ok"

OzowPreChecks(defect) ==
  CASE defect = "rate_limited" -> "rate_limited"
    [] defect = "bad_signature" -> "invalid_signature"
    [] defect = "no_reference" -> "missing_reference"
    [] OTHER -> "ok"

PreChecks(provider, defect) ==
  CASE provider = "payfast" -> PayfastPreChecks(defect)
    [] provider = "snapscan" -> SnapScanPreChecks(defect)
    [] OTHER -> OzowPreChecks(defect)

\* SELECT ... WHERE payment_provider = provider AND payment_ref = ref LIMIT 1
getContributionByPaymentRef(provider, ref) ==
  IF ref \in Contribs /\ paymentProvider[ref] = provider THEN ref ELSE NoContribution

(***************************************************************************)
(* Webhook handlers, after the lookup: the answer that ends the request,   *)
(* or "ok" when the handler goes on to update the contribution.            *)
(*   found  - the contribution read, or NoContribution                     *)
(*   snap   - its paymentStatus as read                                    *)
(***************************************************************************)
ExpectedTotal(c) == amountCents[c] + feeCents[c]

\* the SnapScan validation with the comparison against the expected total left out
SnapScanValidateWithoutComparison(found, snap, amount) ==
  IF found = NoContribution THEN "not_found"
  ELSE IF snap = "completed" THEN "received"
  ELSE IF amount = Null THEN "amount_missing"
  ELSE "ok"

SnapScanValidateContributionAmount(found, snap, amount) ==
  IF found = NoContribution THEN "not_found"
  ELSE IF snap = "completed" THEN "received"
  ELSE IF amount = Null THEN "amount_missing"
  ELSE IF amount # ExpectedTotal(found) THEN "amount_mismatch"
  ELSE "ok"

\* the PayFast validation with the early return on a completed contribution left out
PayfastValidateWithoutShortCircuit(found, snap, amount) ==
  IF found = NoContribution THEN "not_found"
  ELSE IF amount = Null \/ amount = 0 \/ amount # ExpectedTotal(found) THEN "amount_mismatch"
  ELSE "ok"

PayfastValidateContributionAmount(found, snap, amount) ==
  IF found = NoContribution THEN "not_found"
  ELSE IF snap = "completed" THEN "received"
  ELSE IF amount = Null \/ amount = 0 \/ amount # ExpectedTotal(found) THEN "amount_mismatch"
  ELSE "ok"

\* the Ozow validation with the same-status return moved before the amount checks
OzowValidateSameStatusFirst(found, snap, amount, status) ==
  IF found = NoContribution THEN "not_found"
  ELSE IF snap = "completed" THEN "received"
  ELSE IF snap = status THEN "received"
  ELSE IF amount = Null THEN "amount_missing"
  ELSE IF amount # ExpectedTotal(found) THEN "amount_mismatch"
  ELSE "ok"

OzowValidate(found, snap, amount, status) ==
  IF found = NoContribution THEN "not_found"
  ELSE IF snap = "completed" THEN "received"
  ELSE IF amount = Null THEN "amount_missing"
  ELSE IF amount # ExpectedTotal(found) THEN "amount_mismatch"
  ELSE IF snap = status THEN "received"
  ELSE "ok"

Validate(provider, found, snap, amount, status) ==
  CASE provider = "payfast" -> PayfastValidateContributionAmount(found, snap, amount)
    [] provider = "snapscan" -> SnapScanValidateContributionAmount(found, snap, amount)
    [] OTHER -> OzowValidate(found, snap, amount, status)

HttpStatus(resp) ==
  CASE resp = "received" -> 200
    [] resp = "rate_limited" -> 429
    [] resp = "invalid_source" -> 403
    [] resp = "not_found" -> 404
    [] resp = "server_error" -> 500
    [] OTHER -> 400

(***************************************************************************)
(* Store operations.                                                       *)
(***************************************************************************)
\* the update that saves the whole table as the handler first read it
updateContributionStatusFromSnapshot(ps, id, status) ==
  [c \in Contribs |-> IF c = id THEN status ELSE "pending"]

\* UPDATE contributions SET payment_status = status WHERE id = id
updateContributionStatus(ps, id, status) == [ps EXCEPT ![id] = status]

\* the funding test with the early return on a board that is not active left out
ShouldMarkFundedAnyStatus(status, raised, goal) == raised >= goal

\* the three early returns of markDreamBoardFundedIfNeeded, on the row it selected
ShouldMarkFunded(status, raised, goal) == status = "active" /\ raised >= goal

\* the write that flips the status instead of setting it
SetBoardToggled(bs, b) == [bs EXCEPT ![b] = IF @ = "funded" THEN "active" ELSE "funded"]

\* UPDATE dream_boards SET status = 'funded' WHERE id = b
SetBoardFunded(bs, b) == [bs EXCEPT ![b] = "funded"]

(***************************************************************************)
(* Webhook requests.  `mode` is how the requests of a specification are    *)
(* run: "concurrent" (up to MaxInFlight at a time), "alone" (one after     *)
(* the other) or "traced" (alone, and the answer is kept in `last`).       *)
(***************************************************************************)
NoRequest == [provider |-> "none", ref |-> NoContribution, status |-> NoStatus, amount |-> Null]
NoAnswer == [provider |-> "none", cid |-> NoContribution, status |-> NoStatus, amount |-> Null,
             snap |-> NoStatus, resp |-> "none", writes |-> 0, reads |-> 0, defect |-> "untraced"]

Refs == Contribs \cup {NoContribution}

RequestOf(h) ==
  [provider |-> h.provider, ref |-> h.cid, status |-> h.status, amount |-> h.amount]

AnswerOf(h, resp) ==
  [provider |-> h.provider, cid |-> h.cid, status |-> h.status, amount |-> h.amount,
   snap |-> h.snap, resp |-> resp, writes |-> h.writes, reads |-> h.reads, defect |-> h.defect]

InFlight == BagToSet(hook)
Start(h) == hook (+) SetToBag({h})
Stop(h) == hook (-) SetToBag({h})
Step(h, h2) == (hook (-) SetToBag({h})) (+) SetToBag({h2})

CanFail == failures < MaxFailures /\ owed = NoRequest

Traced(mode) == mode \in {"traced", "stamped"}

\* what the trace keeps of the defect of a delivery
TraceOf(defect, mode) == IF mode = "stamped" THEN defect ELSE "untraced"

Admit(mode) ==
  /\ BagCardinality(hook) < MaxInFlight
  /\ mode # "concurrent" => hook = EmptyBag /\ run.pc = "idle"

\* the answer of a check that comes after the lookup of the contribution
RejectedAfterLookup(provider, code) ==
  [NoAnswer EXCEPT !.provider = provider, !.resp = code, !.reads = 1]

\* the answer of a check that fails before getContributionByPaymentRef is called
RejectedBeforeLookup(provider, code) == [NoAnswer EXCEPT !.provider = provider, !.resp = code]

\* a request that fails a check made before the store is read
ReceiveRejected(mode) ==
  /\ Admit(mode)
  /\ \E provider \in Providers : \E defect \in DefectsOf(provider) :
    /\ PreChecks(provider, defect) # "ok"
    /\ last' = IF Traced(mode)
               THEN RejectedBeforeLookup(provider, PreChecks(provider, defect))
               ELSE last
    /\ UNCHANGED <<paymentStatus, boardStatus, hook, owed, failures, run, paymentProvider, others, kv, calls, result>>

\* The handler of a request that passes those checks, up to the answer or to
\* the first store write: getContributionByPaymentRef, amount validation,
\* status mapping.  The outcome is the answer given and the handlers in flight.
HandleOutcome(req, defect, mode) ==
  LET found == getContributionByPaymentRef(req.provider, req.ref)
      snap == IF found = NoContribution THEN NoStatus ELSE paymentStatus[found]
      verdict == Validate(req.provider, found, snap, req.amount, req.status)
      h == [pc |-> "update", provider |-> req.provider, cid |-> found, status |-> req.status,
            amount |-> req.amount, snap |-> IF Traced(mode) THEN snap ELSE NoStatus, writes |-> 0,
            reads |-> 1, defect |-> TraceOf(defect, mode)]
  IN IF verdict # "ok"
     THEN [last |-> IF ~Traced(mode) THEN last
                    ELSE IF found = NoContribution
                    THEN [NoAnswer EXCEPT !.provider = req.provider, !.resp = verdict, !.reads = 1,
                                          !.defect = TraceOf(defect, mode)]
                    ELSE AnswerOf([h EXCEPT !.snap = snap], verdict),
           hook |-> hook]
     ELSE [last |-> IF Traced(mode) THEN NoAnswer ELSE last, hook |-> Start(h)]

HandleStamped(req, defect, mode) ==
  /\ Admit(mode)
  /\ last' = HandleOutcome(req, defect, mode).last
  /\ hook' = HandleOutcome(req, defect, mode).hook
  /\ UNCHANGED <<paymentStatus, boardStatus, failures, run, paymentProvider, others, kv, calls, result>>

Handle(req, mode) == HandleStamped(req, "none", mode)

\* the outcome of POST for a delivery with the given defect: the checks made
\* before the lookup, then the handler
DeliverOutcome(provider, defect, req, mode) ==
  IF PreChecks(provider, defect) # "ok"
  THEN [last |-> IF Traced(mode)
                 THEN RejectedBeforeLookup(provider, PreChecks(provider, defect))
                 ELSE last,
        hook |-> hook]
  ELSE HandleOutcome(req, defect, mode)

\* the deliveries the trace tells apart among those that pass the checks
Passing(provider, mode) ==
  IF mode = "stamped"
  THEN {defect \in DefectsOf(provider) : PreChecks(provider, defect) = "ok"}
  ELSE {"none"}

\* a provider delivers a callback that passes the checks made before the lookup
Receive(mode) ==
  /\ Admit(mode)
  /\ \E provider \in Providers, ref \in Refs, raw \in RawStatuses, amount \in Amounts :
    /\ \E defect \in DefectsOf(provider) : PreChecks(provider, defect) = "ok"
    /\ \E defect \in Passing(provider, mode) :
         HandleStamped([provider |-> provider, ref |-> ref,
                        status |-> mappedStatus[provider][raw], amount |-> amount], defect, mode)
    /\ UNCHANGED owed

\* the provider delivers again the callback that was answered 5xx
Redeliver(mode) ==
  /\ owed # NoRequest
  /\ Handle(owed, mode)
  /\ owed' = NoRequest

Finish(h, h2, resp, mode) ==
  /\ hook' = Stop(h)
  /\ last' = IF Traced(mode) THEN AnswerOf(h2, resp) ELSE last

\* the update followed by the funding check whatever the status written
UpdateAlwaysFunds(h, mode) ==
  /\ h.pc = "update"
  /\ paymentStatus' = updateContributionStatus(paymentStatus, h.cid, h.status)
  /\ hook' = Step(h, [h EXCEPT !.writes = h.writes + 1, !.pc = "fundRead"])
  /\ UNCHANGED <<boardStatus, last, owed, failures, run, paymentProvider, others, kv, calls, result>>

\* await updateContributionStatus(contribution.id, status)
Update(h, mode) ==
  LET h2 == [h EXCEPT !.writes = h.writes + 1]
  IN /\ h.pc = "update"
     /\ paymentStatus' = updateContributionStatus(paymentStatus, h.cid, h.status)
     /\ IF h.status = "completed"
        THEN /\ hook' = Step(h, [h2 EXCEPT !.pc = "fundRead"])
             /\ UNCHANGED last
        ELSE Finish(h, h2, "received", mode)
     /\ UNCHANGED <<boardStatus, owed, failures, run, paymentProvider, others, kv, calls, result>>

\* markDreamBoardFundedIfNeeded: the SELECT and the early returns
FundRead(h, mode) ==
  LET b == dreamBoardId[h.cid]
  IN /\ h.pc = "fundRead"
     /\ IF ShouldMarkFunded(boardStatus[b], raisedCents(b, paymentStatus), goalCents[b])
        THEN /\ hook' = Step(h, [h EXCEPT !.pc = "fundWrite"])
             /\ UNCHANGED last
        ELSE Finish(h, h, "received", mode)
     /\ UNCHANGED <<paymentStatus, boardStatus, owed, failures, run, paymentProvider, others, kv, calls, result>>

\* markDreamBoardFundedIfNeeded: the UPDATE
FundWrite(h, mode) ==
  /\ h.pc = "fundWrite"
  /\ boardStatus' = SetBoardFunded(boardStatus, dreamBoardId[h.cid])
  /\ Finish(h, [h EXCEPT !.writes = h.writes + 1], "received", mode)
  /\ UNCHANGED <<paymentStatus, owed, failures, run, paymentProvider, others, kv, calls, result>>

\* a store call of the handler throws: the request ends 5xx where it stands
StoreFails(h, mode) ==
  /\ CanFail
  /\ Finish(h, h, "server_error", mode)
  /\ owed' = RequestOf(h)
  /\ failures' = failures + 1
  /\ UNCHANGED <<paymentStatus, boardStatus, run, paymentProvider, others, kv, calls, result>>

(***************************************************************************)
(* Reconciliation: the decision function and the time windows.             *)
(***************************************************************************)
getExpectedTotal(amount, fee) == amount + fee

decideReconciliation(status, expectedTotal, receivedTotal) ==
  IF status = "completed" /\ receivedTotal = expectedTotal
  THEN [action |-> "update", status |-> "completed",
        expectedTotal |-> expectedTotal, receivedTotal |-> receivedTotal]
  ELSE IF status = "failed"
  THEN [action |-> "update", status |-> "failed",
        expectedTotal |-> expectedTotal, receivedTotal |-> receivedTotal]
  ELSE IF status = "completed"
  THEN [action |-> "mismatch", status |-> status,
        expectedTotal |-> expectedTotal, receivedTotal |-> receivedTotal]
  ELSE [action |-> "none", status |-> status,
        expectedTotal |-> expectedTotal, receivedTotal |-> receivedTotal]

MinimumAgeBuffer == 1
PrimaryLookback == 2
TotalLookbacks == {2, 4}

\* cutoff = now - minimum age buffer; lookbackStart = cutoff - primary lookback
getReconciliationWindow(now) ==
  [lookbackStart |-> now - MinimumAgeBuffer - PrimaryLookback, cutoff |-> now - MinimumAgeBuffer]

\* longTailStart = cutoff - total lookback
getLongTailStart(now, total) == now - MinimumAgeBuffer - total

createdAt == [c \in Contribs |-> CASE c = 1 -> 1 [] c = 2 -> 3 [] OTHER -> 2]

\* payment_status IN (pending, processing) AND created_at in [from, to)
listContributionsForReconciliation(ps, from, to) ==
  {c \in Contribs : ps[c] \in {"pending", "processing"} /\ from <= createdAt[c] /\ createdAt[c] < to}

listContributionsForLongTailReconciliation(ps, longTailStart, lookbackStart, cutoff) ==
  {c \in Contribs : /\ ps[c] \in {"pending", "processing"}
                    /\ longTailStart <= createdAt[c]
                    /\ createdAt[c] < lookbackStart}

(***************************************************************************)
(* Reconciliation job.                                                     *)
(***************************************************************************)
NoTx == [status |-> NoStatus, amount |-> Null]
Txs == [status : ProviderStatuses, amount : Amounts]
NoTxs == [c \in Contribs |-> NoTx]
ZeroResult == [scanned |-> 0, updated |-> 0, failed |-> 0, unresolved |-> 0, mismatches |-> <<>>]
ZeroCounters == [scanned |-> 0, updated |-> 0, failed |-> 0, mismatches |-> 0, unresolved |-> 0]
NoReport == [status |-> 0, scanned |-> 0, updated |-> 0, failed |-> 0, mismatches |-> 0,
             unresolved |-> 0, longTail |-> ZeroCounters]

IdleRun ==
  [pc |-> "idle", phase |-> "none", now |-> 0, lookbackStart |-> 0, cutoff |-> 0,
   longTailStart |-> 0, groups |-> <<>>, todo |-> <<>>, txs |-> NoTxs, write |-> NoStatus,
   scanned |-> 0, updated |-> 0, failed |-> 0, unresolved |-> 0, mismatches |-> <<>>,
   primary |-> ZeroResult, longTail |-> ZeroResult, longTailQueries |-> 0,
   primarySet |-> {}, longTailSet |-> {}, skipLogged |-> FALSE, alertCalls |-> 0,
   secret |-> "", authHeader |-> <<>>, listFailures |-> 0, report |-> NoReport,
   alertsEnabled |-> FALSE, alertEmail |-> "", alertFailed |-> FALSE, pagingComplete |-> TRUE]

RECURSIVE SetToSeq(_)
SetToSeq(S) ==
  IF S = {} THEN <<>>
  ELSE LET c == CHOOSE x \in S : \A y \in S : x <= y
       IN <<c>> \o SetToSeq(S \ {c})

groupPendingByProvider(pending) ==
  [p \in Providers |-> SetToSeq({c \in pending : paymentProvider[c] = p})]

RECURSIVE getEarliestDate(_)
getEarliestDate(group) ==
  IF Len(group) = 1 THEN createdAt[group[1]]
  ELSE LET min == getEarliestDate(Tail(group))
       IN IF createdAt[group[1]] < min THEN createdAt[group[1]] ELSE min

\* what a provider's listing between `from` and `to` can hold for the group
Listings(group, from, to) ==
  LET listed == {c \in Contribs : /\ \E i \in 1..Len(group) : group[i] = c
                                   /\ from <= createdAt[c] /\ createdAt[c] <= to}
  IN {[c \in Contribs |-> IF c \in listed THEN f[c] ELSE NoTx] :
        f \in [listed -> Txs \cup {NoTx}]}

\* the PayFast loop counting nothing
payfastPendingUncounted(group) == 0

\* for (const contribution of pendingByProvider.payfast) { log; unresolved += 1 }
payfastPending(group) == Len(group)

\* reconcilePending up to its first provider call: the PayFast loop counts
\* every PayFast contribution unresolved
BeginPass(r, phase, pending) ==
  LET g == groupPendingByProvider(pending)
      groups == SelectSeq(<<[provider |-> "ozow", members |-> g["ozow"]],
                            [provider |-> "snapscan", members |-> g["snapscan"]]>>,
                          LAMBDA x : x.members # <<>>)
  IN [r EXCEPT !.phase = phase, !.scanned = Cardinality(pending), !.updated = 0,
               !.failed = 0, !.unresolved = payfastPending(g["payfast"]), !.mismatches = <<>>,
               !.groups = groups, !.todo = <<>>, !.txs = NoTxs, !.write = NoStatus,
               !.pc = IF groups = <<>> THEN "passEnd" ELSE "list"]

NextGroup(r) ==
  LET gs == Tail(r.groups)
  IN [r EXCEPT !.groups = gs, !.todo = <<>>, !.txs = NoTxs, !.write = NoStatus,
               !.pagingComplete = TRUE,
               !.pc = IF gs = <<>> THEN "passEnd" ELSE "list"]

NextContribution(r) ==
  IF Tail(r.todo) = <<>> THEN NextGroup(r)
  ELSE [r EXCEPT !.todo = Tail(r.todo), !.write = NoStatus, !.pc = "decide"]

\* the long-tail condition with <= in place of <
LongTailEnabledInclusive(longTailStart, lookbackStart) == longTailStart <= lookbackStart

LongTailEnabled(longTailStart, lookbackStart) == longTailStart < lookbackStart

\* INTERNAL_JOB_SECRET ("" when it is not set) and the Authorization header of
\* a request (<<>> when it has none), as the words of the header
Secrets == {"", "s1"}
AuthHeaders == {<<>>, <<"s1">>, <<"bearer", "s1">>, <<"Bearer", "">>, <<"Bearer", "s2">>,
                <<"Bearer", "s1">>}

\* the header test accepting any bearer token
isAuthorizedAnyBearer(secret, authHeader) ==
  IF secret = "" THEN FALSE ELSE Len(authHeader) = 2 /\ authHeader[1] = "Bearer"

isAuthorized(secret, authHeader) ==
  IF secret = "" THEN FALSE ELSE authHeader = <<"Bearer", secret>>

\* the answers of POST before it reads anything
Rejected(secret, authHeader, status) ==
  [IdleRun EXCEPT !.pc = "done", !.secret = secret, !.authHeader = authHeader,
                  !.report = [NoReport EXCEPT !.status = status]]

\* POST: authorisation, the window, the primary query, the start of the primary pass
RunStart ==
  /\ run.pc = "idle"
  /\ \E secret \in Secrets, authHeader \in AuthHeaders, now \in 0..MaxTime,
        total \in TotalLookbacks :
       IF secret = "" THEN run' = Rejected(secret, authHeader, 503)
       ELSE IF ~isAuthorized(secret, authHeader) THEN run' = Rejected(secret, authHeader, 401)
       ELSE LET w == getReconciliationWindow(now)
                pending == listContributionsForReconciliation(paymentStatus, w.lookbackStart, w.cutoff)
            IN run' = BeginPass([IdleRun EXCEPT !.now = now, !.lookbackStart = w.lookbackStart,
                                                !.cutoff = w.cutoff,
                                                !.longTailStart = getLongTailStart(now, total),
                                                !.primarySet = pending,
                                                !.secret = secret, !.authHeader = authHeader],
                                "primary", pending)
  /\ UNCHANGED <<paymentStatus, boardStatus, hook, last, owed, failures, paymentProvider, others, kv, calls, result>>

\* a listing whose paging did not complete taken for a failed listing
listedOrFailed(r, txs, pagingComplete) ==
  IF pagingComplete
  THEN [r EXCEPT !.txs = txs, !.todo = Head(r.groups).members, !.pc = "decide"]
  ELSE [r EXCEPT !.unresolved = r.unresolved + Len(Head(r.groups).members),
                 !.pagingComplete = FALSE, !.groups = Tail(r.groups),
                 !.pc = IF Tail(r.groups) = <<>> THEN "passEnd" ELSE "list"]

\* the listing returned: pagingComplete = false is logged and the transactions
\* received are put in the map all the same
listed(r, txs, pagingComplete) ==
  [r EXCEPT !.txs = txs, !.todo = Head(r.groups).members, !.pagingComplete = pagingComplete,
            !.pc = "decide"]

\* await listOzowTransactionsPaged / listSnapScanPayments, and the reference map
RunList ==
  /\ run.pc = "list"
  /\ LET g == Head(run.groups)
     IN \E txs \in Listings(g.members, getEarliestDate(g.members), run.now),
           pagingComplete \in IF g.provider = "ozow" THEN BOOLEAN ELSE {TRUE} :
          run' = listed(run, txs, pagingComplete)
  /\ UNCHANGED <<paymentStatus, boardStatus, hook, last, owed, failures, paymentProvider, others, kv, calls, result>>

\* the catch block counting one contribution whatever the size of the group
listingFailedCountsOne(r) ==
  NextGroup([r EXCEPT !.unresolved = r.unresolved + 1,
                      !.listFailures = r.listFailures + 1])

\* the catch block of a provider's listing: the whole group is counted
\* unresolved (listFailures records, for the properties, that it ran)
listingFailed(r) ==
  NextGroup([r EXCEPT !.unresolved = r.unresolved + Len(Head(r.groups).members),
                      !.listFailures = r.listFailures + 1])

\* the provider's listing call throws
RunListFails ==
  /\ run.pc = "list"
  /\ run' = listingFailed(run)
  /\ UNCHANGED <<paymentStatus, boardStatus, hook, last, owed, failures, paymentProvider, others, kv, calls, result>>

\* a store call of handleDecision throws (the UPDATE of the contribution, or the
\* SELECT or the UPDATE of the funding check): the throw leaves the loop over
\* the group and is caught by the catch block of the group's listing
RunStoreFails ==
  /\ run.pc \in {"update", "fundRead", "fundWrite"}
  /\ run' = listingFailed(run)
  /\ UNCHANGED <<paymentStatus, boardStatus, hook, last, owed, failures, paymentProvider, others, kv, calls, result>>

\* handleDecision with the mismatch branch falling through to the last branch
handleDecisionUnrecorded(r, c, decision) ==
  IF decision.action = "update"
  THEN [r EXCEPT !.write = decision.status, !.pc = "update"]
  ELSE NextContribution([r EXCEPT !.unresolved = r.unresolved + 1])

\* handleDecision writing 'completed' for every update decision
handleDecisionAlwaysCompleted(r, c, decision) ==
  IF decision.action = "update"
  THEN [r EXCEPT !.write = "completed", !.pc = "update"]
  ELSE IF decision.action = "mismatch"
  THEN NextContribution(
         [r EXCEPT !.mismatches = Append(r.mismatches,
                                         [provider |-> paymentProvider[c], paymentRef |-> c,
                                          expectedTotal |-> decision.expectedTotal,
                                          receivedTotal |-> decision.receivedTotal,
                                          status |-> decision.status]),
                   !.unresolved = r.unresolved + 1])
  ELSE NextContribution([r EXCEPT !.unresolved = r.unresolved + 1])

\* handleDecision up to its first store call, on the decision it computed
handleDecision(r, c, decision) ==
  IF decision.action = "update"
  THEN [r EXCEPT !.write = decision.status, !.pc = "update"]
  ELSE IF decision.action = "mismatch"
  THEN NextContribution(
         [r EXCEPT !.mismatches = Append(r.mismatches,
                                         [provider |-> paymentProvider[c], paymentRef |-> c,
                                          expectedTotal |-> decision.expectedTotal,
                                          receivedTotal |-> decision.receivedTotal,
                                          status |-> decision.status]),
                   !.unresolved = r.unresolved + 1])
  ELSE NextContribution([r EXCEPT !.unresolved = r.unresolved + 1])

\* a reference that is not listed taken for a failed payment
missingTransactionMarkedFailed(r) == [r EXCEPT !.write = "failed", !.pc = "update"]

\* if (!transaction) { unresolved += 1; continue; }
missingTransaction(r) == NextContribution([r EXCEPT !.unresolved = r.unresolved + 1])

\* one contribution of the group: the map lookup and the decision
RunDecide ==
  /\ run.pc = "decide"
  /\ LET c == Head(run.todo)
         tx == run.txs[c]
     IN run' = IF tx = NoTx
               THEN missingTransaction(run)
               ELSE handleDecision(run, c,
                      decideReconciliation(tx.status,
                                           getExpectedTotal(amountCents[c], feeCents[c]),
                                           tx.amount))
  /\ UNCHANGED <<paymentStatus, boardStatus, hook, last, owed, failures, paymentProvider, others, kv, calls, result>>

\* handleDecision: await updateContributionStatus(contribution.id, decision.status)
RunUpdate ==
  /\ run.pc = "update"
  /\ paymentStatus' = updateContributionStatus(paymentStatus, Head(run.todo), run.write)
  /\ run' = IF run.write = "completed"
            THEN [run EXCEPT !.pc = "fundRead"]
            ELSE NextContribution([run EXCEPT !.failed = run.failed + 1])
  /\ UNCHANGED <<boardStatus, hook, last, owed, failures, paymentProvider, others, kv, calls, result>>

\* handleDecision: markDreamBoardFundedIfNeeded, the SELECT and the early returns
RunFundRead ==
  /\ run.pc = "fundRead"
  /\ LET b == dreamBoardId[Head(run.todo)]
     IN run' = IF ShouldMarkFunded(boardStatus[b], raisedCents(b, paymentStatus), goalCents[b])
               THEN [run EXCEPT !.pc = "fundWrite"]
               ELSE NextContribution([run EXCEPT !.updated = run.updated + 1])
  /\ UNCHANGED <<paymentStatus, boardStatus, hook, last, owed, failures, paymentProvider, others, kv, calls, result>>

\* handleDecision: markDreamBoardFundedIfNeeded, the UPDATE
RunFundWrite ==
  /\ run.pc = "fundWrite"
  /\ boardStatus' = SetBoardFunded(boardStatus, dreamBoardId[Head(run.todo)])
  /\ run' = NextContribution([run EXCEPT !.updated = run.updated + 1])
  /\ UNCHANGED <<paymentStatus, hook, last, owed, failures, paymentProvider, others, kv, calls, result>>

PassResult(r) ==
  [scanned |-> r.scanned, updated |-> r.updated, failed |-> r.failed,
   unresolved |-> r.unresolved, mismatches |-> r.mismatches]

\* a pass returns; after the primary pass POST decides whether to run the long tail
RunPassEnd ==
  /\ run.pc = "passEnd"
  /\ run' = IF run.phase = "long_tail"
            THEN [run EXCEPT !.longTail = PassResult(run), !.pc = "finish"]
            ELSE IF LongTailEnabled(run.longTailStart, run.lookbackStart)
            THEN [run EXCEPT !.primary = PassResult(run), !.pc = "longTail"]
            ELSE [run EXCEPT !.primary = PassResult(run), !.skipLogged = TRUE, !.pc = "finish"]
  /\ UNCHANGED <<paymentStatus, boardStatus, hook, last, owed, failures, paymentProvider, others, kv, calls, result>>

\* the long-tail query called with the cutoff as its upper bound
LongTailPendingToCutoff(ps, r) ==
  listContributionsForLongTailReconciliation(ps, r.longTailStart, r.cutoff, r.cutoff)

\* the long-tail query as POST calls it
LongTailPending(ps, r) ==
  listContributionsForLongTailReconciliation(ps, r.longTailStart, r.lookbackStart, r.cutoff)

\* await listContributionsForLongTailReconciliation, and the start of the long-tail pass
RunLongTail ==
  /\ run.pc = "longTail"
  /\ LET pending == LongTailPending(paymentStatus, run)
         r == [run EXCEPT !.longTailQueries = run.longTailQueries + 1, !.longTailSet = pending]
     IN run' = IF pending = {}
               THEN [r EXCEPT !.pc = "finish"]
               ELSE BeginPass(r, "long_tail", pending)
  /\ UNCHANGED <<paymentStatus, boardStatus, hook, last, owed, failures, paymentProvider, others, kv, calls, result>>

\* RECONCILIATION_ALERT_EMAIL: not set, or a recipient
AlertEmails == {"", "ops"}

\* the alert sent whether or not a recipient is configured
alertSentWithoutRecipient(alertsEnabled, alertEmail, mismatches) ==
  alertsEnabled /\ Len(mismatches) > 0

\* if (alertsEnabled && alertEmail && mismatches.length > 0)
alertSent(alertsEnabled, alertEmail, mismatches) ==
  alertsEnabled /\ alertEmail # "" /\ Len(mismatches) > 0

\* the body of the response: the totals of both passes and those of the long tail
ReportOf(primary, longTail) ==
  [status |-> 200,
   scanned |-> primary.scanned + longTail.scanned,
   updated |-> primary.updated + longTail.updated,
   failed |-> primary.failed + longTail.failed,
   mismatches |-> Len(primary.mismatches \o longTail.mismatches),
   unresolved |-> primary.unresolved + longTail.unresolved,
   longTail |-> [scanned |-> longTail.scanned,
                 updated |-> longTail.updated,
                 failed |-> longTail.failed,
                 mismatches |-> Len(longTail.mismatches),
                 unresolved |-> longTail.unresolved]]

\* the totals of both passes, the alert (sendEmail may throw; the throw is
\* caught and logged) and the report
RunFinish ==
  /\ run.pc = "finish"
  /\ \E alertsEnabled \in BOOLEAN, alertEmail \in AlertEmails, sendFails \in BOOLEAN :
       LET mismatches == run.primary.mismatches \o run.longTail.mismatches
           sent == alertSent(alertsEnabled, alertEmail, mismatches)
       IN run' = [run EXCEPT
                    !.pc = "done",
                    !.alertsEnabled = alertsEnabled,
                    !.alertEmail = alertEmail,
                    !.alertCalls = IF sent THEN 1 ELSE 0,
                    !.alertFailed = sent /\ sendFails,
                    !.report = ReportOf(run.primary, run.longTail)]
  /\ UNCHANGED <<paymentStatus, boardStatus, hook, last, owed, failures, paymentProvider, others, kv, calls, result>>

\* the response is sent and the request's state is gone
RunReturn ==
  /\ run.pc = "done"
  /\ run' = IdleRun
  /\ UNCHANGED <<paymentStatus, boardStatus, hook, last, owed, failures, paymentProvider, others, kv, calls, result>>

Reconcile ==
  \/ RunStart
  \/ RunList
  \/ RunListFails
  \/ RunDecide
  \/ RunUpdate
  \/ RunFundRead
  \/ RunFundWrite
  \/ RunPassEnd
  \/ RunLongTail
  \/ RunFinish
  \/ RunReturn

(***************************************************************************)
(* API rate limiter: two counters per key in the key-value store, an hour  *)
(* counter and a minute counter.  A counter is its count, its remaining    *)
(* time to live in seconds (NoKey when the key does not exist, NoExpiry    *)
(* when it exists without one) and two records kept for the properties:    *)
(* `bare`, the time it has existed without a time to live, and `allowed`,  *)
(* the calls allowed among those that incremented it in this lifetime.     *)
(***************************************************************************)
HOUR_SECONDS == 3600
MINUTE_SECONDS == 60
NoKey == -2
NoExpiry == -1

Absent == [count |-> 0, ttl |-> NoKey, bare |-> 0, allowed |-> 0]

\* kv.incr(key)
incr(k) ==
  IF k.ttl = NoKey THEN [Absent EXCEPT !.count = 1, !.ttl = NoExpiry]
  ELSE [k EXCEPT !.count = k.count + 1]

\* kv.expire(key, seconds, 'NX'): sets the time to live only if the key has none
expireNX(k, seconds) == IF k.ttl = NoExpiry THEN [k EXCEPT !.ttl = seconds] ELSE k

\* kv.ttl(key)
ttl(k) == k.ttl

\* the key after some seconds have passed
elapse(k, seconds) ==
  IF k.ttl = NoKey THEN k
  ELSE IF k.ttl = NoExpiry THEN [k EXCEPT !.bare = TickSeconds]
  ELSE IF k.ttl - seconds <= 0 THEN Absent
  ELSE [k EXCEPT !.ttl = k.ttl - seconds]

getBurstLimit(rateLimit) == IF rateLimit >= 10000 THEN 500 ELSE 100

NoResult ==
  [kind |-> "none", ok |-> FALSE, status |-> 0, allowed |-> FALSE, limit |-> 0, burst |-> 0,
   remaining |-> 0, resetSeconds |-> 0, retryAfterSeconds |-> Null,
   hourCount |-> 0, minuteCount |-> 0, hourTtl |-> NoKey, minuteTtl |-> NoKey, kvCalls |-> 0,
   error |-> "none", keyId |-> <<>>]

Max(a, b) == IF a > b THEN a ELSE b

\* the hour test letting one call more through
hourExceededAfterOneMore(hourCount, limit) == hourCount > limit + 1

hourExceeded(hourCount, limit) == hourCount > limit

minuteExceeded(minuteCount, burst) == minuteCount > burst

\* the reset taken from the minute counter whichever limit is exceeded
limitingResetSecondsOfMinute(exceeded, hourResetSeconds, minuteResetSeconds) ==
  minuteResetSeconds

limitingResetSeconds(exceeded, hourResetSeconds, minuteResetSeconds) ==
  IF exceeded THEN hourResetSeconds ELSE minuteResetSeconds

\* what enforceApiRateLimit returns on the counts and times to live it read
ApiRateLimitResult(limit, burst, hourCount, minuteCount, hourTtl, minuteTtl) ==
  LET remaining == Max(0, limit - hourCount)
      allowed == ~hourExceeded(hourCount, limit) /\ ~minuteExceeded(minuteCount, burst)
      hourResetSeconds == IF hourTtl > 0 THEN hourTtl ELSE HOUR_SECONDS
      minuteResetSeconds == IF minuteTtl > 0 THEN minuteTtl ELSE MINUTE_SECONDS
      limiting == limitingResetSeconds(hourExceeded(hourCount, limit),
                                       hourResetSeconds, minuteResetSeconds)
  IN [NoResult EXCEPT
        !.kind = "rateLimit", !.allowed = allowed, !.limit = limit, !.burst = burst,
        !.remaining = remaining,
        !.resetSeconds = IF allowed THEN hourResetSeconds ELSE limiting,
        !.retryAfterSeconds = IF allowed THEN Null ELSE limiting,
        !.hourCount = hourCount, !.minuteCount = minuteCount,
        !.hourTtl = hourTtl, !.minuteTtl = minuteTtl, !.kvCalls = 6]

\* what enforceApiAuth makes of the limiter's result for an authenticated key
ApiAuthResult(r) ==
  [r EXCEPT !.kind = "auth", !.ok = r.allowed, !.status = IF r.allowed THEN 200 ELSE 429]

Calling == BagToSet(calls)

CanCall(limit, burst) ==
  /\ BagCardinality(calls) < MaxInFlight
  /\ kv.hour.count <= limit + 1
  /\ kv.minute.count <= burst + 1

\* enforceApiRateLimit up to its first await: kv.incr on both keys
BeginCall(via, limit, burst) ==
  LET hour == incr(kv.hour)
      minute == incr(kv.minute)
      call == [pc |-> "expire", via |-> via, limit |-> limit, burst |-> burst,
               hourCount |-> hour.count, minuteCount |-> minute.count,
               hourStale |-> FALSE, minuteStale |-> FALSE]
  IN /\ CanCall(limit, burst)
     /\ kv' = [kv EXCEPT !.hour = hour, !.minute = minute]
     /\ calls' = calls (+) SetToBag({call})

\* a direct call of enforceApiRateLimit with the limits configured for the
\* key, alone or while other calls are in flight
Enforce(mode) ==
  /\ mode = "alone" => calls = EmptyBag
  /\ BeginCall("direct", kv.limit, kv.burst)
  /\ UNCHANGED <<paymentStatus, boardStatus, hook, last, owed, failures, run, paymentProvider, others>>
  /\ result' = NoResult

\* second await: kv.expire(key, window, 'NX') on both keys
Expire(call) ==
  /\ call.pc = "expire"
  /\ kv' = [kv EXCEPT !.hour = expireNX(kv.hour, HOUR_SECONDS),
                      !.minute = expireNX(kv.minute, MINUTE_SECONDS)]
  /\ calls' = (calls (-) SetToBag({call})) (+) SetToBag({[call EXCEPT !.pc = "ttl"]})
  /\ UNCHANGED <<paymentStatus, boardStatus, hook, last, owed, failures, run, paymentProvider, others>>
  /\ result' = NoResult

\* third await: kv.ttl on both keys, and the result
Return(call) ==
  LET r == ApiRateLimitResult(call.limit, call.burst, call.hourCount, call.minuteCount,
                              ttl(kv.hour), ttl(kv.minute))
  IN /\ call.pc = "ttl"
     /\ result' = IF call.via = "auth" THEN ApiAuthResult(r) ELSE r
     /\ kv' = [kv EXCEPT
                 !.hour.allowed = IF r.allowed /\ ~call.hourStale THEN @ + 1 ELSE @,
                 !.minute.allowed = IF r.allowed /\ ~call.minuteStale THEN @ + 1 ELSE @]
     /\ calls' = calls (-) SetToBag({call})
     /\ UNCHANGED <<paymentStatus, boardStatus, hook, last, owed, failures, run, paymentProvider, others>>

\* a key-value call of enforceApiRateLimit throws: the call ends where it stands
CallFails(call) ==
  /\ failures < MaxFailures
  /\ failures' = failures + 1
  /\ calls' = calls (-) SetToBag({call})
  /\ result' = [NoResult EXCEPT !.kind = "thrown", !.status = 500]
  /\ UNCHANGED <<paymentStatus, boardStatus, hook, last, owed, run, paymentProvider, others, kv>>

\* time passes: times to live run down, expired keys disappear, and the calls
\* that incremented a key that disappears belong to a lifetime that is over
Elapse(seconds) ==
  LET hour == elapse(kv.hour, seconds)
      minute == elapse(kv.minute, seconds)
      after(call) == [call EXCEPT
                        !.hourStale = @ \/ (hour.ttl = NoKey /\ kv.hour.ttl # NoKey),
                        !.minuteStale = @ \/ (minute.ttl = NoKey /\ kv.minute.ttl # NoKey)]
  IN /\ kv' = [kv EXCEPT !.hour = hour, !.minute = minute]
     /\ calls' = BagOfAll(after, calls)
     /\ UNCHANGED <<paymentStatus, boardStatus, hook, last, owed, failures, run, paymentProvider, others>>
     /\ result' = NoResult

\* TickSeconds pass while the minute counter runs down, or once while it has
\* no time to live yet
Tick ==
  /\ kv.minute.ttl > 0 \/ (kv.minute.ttl = NoExpiry /\ kv.minute.bare = 0)
  /\ Elapse(TickSeconds)

\* the time passes until the next counter with a time to live expires
Wait ==
  LET left == {t \in {kv.hour.ttl, kv.minute.ttl} : t > 0}
  IN /\ left # {}
     /\ Elapse(CHOOSE t \in left : \A u \in left : t <= u)

\* the client that was denied waits the retryAfterSeconds it was given, while
\* nobody else calls for the key, and calls enforceApiRateLimit again
RetryAfter ==
  LET seconds == result.retryAfterSeconds
      hour == incr(elapse(kv.hour, seconds))
      minute == incr(elapse(kv.minute, seconds))
      call == [pc |-> "expire", via |-> "retry", limit |-> kv.limit, burst |-> kv.burst,
               hourCount |-> hour.count, minuteCount |-> minute.count,
               hourStale |-> FALSE, minuteStale |-> FALSE]
  IN /\ calls = EmptyBag
     /\ result.kind = "rateLimit"
     /\ ~result.allowed
     /\ CanCall(kv.limit, kv.burst)
     /\ kv' = [kv EXCEPT !.hour = hour, !.minute = minute]
     /\ calls' = SetToBag({call})
     /\ result' = NoResult
     /\ UNCHANGED <<paymentStatus, boardStatus, hook, last, owed, failures, run, paymentProvider, others>>

\* the bypass taken on a negative rateLimit only
BypassesOnlyNegative(rateLimit) == rateLimit < 0

\* if (authResult.apiKey.rateLimit <= 0): no rate limiting for this key
Bypasses(rateLimit) == rateLimit <= 0

\* requireApiKey's answers: the key's configured rateLimit, or an error
RateLimits == (-1)..MaxLimit
AuthErrors == {"unauthorized", "forbidden"}

\* anonymousKeySuffix: every error code other than forbidden counts as unauthorized
anonymousKeySuffix(error) == IF error = "forbidden" THEN "forbidden" ELSE "unauthorized"

\* authResult.error.status
ErrorStatus(error) == IF error = "forbidden" THEN 403 ELSE 401

\* the failed check answered with the error's own status whatever the limiter says
AnonymousResultUnthrottled(error, anonymousAllowed) ==
  [NoResult EXCEPT !.kind = "auth", !.limit = ANONYMOUS_RATE_LIMIT,
                   !.burst = getBurstLimit(ANONYMOUS_RATE_LIMIT),
                   !.allowed = anonymousAllowed, !.error = error,
                   !.keyId = <<"anonymous", anonymousKeySuffix(error), "ip">>,
                   !.status = ErrorStatus(error)]

\* enforceApiAuth when requireApiKey fails: the failure is counted under the
\* anonymous key of its kind and of the caller's address, and answered 429
\* when that counter denies
AnonymousResult(error, anonymousAllowed) ==
  [NoResult EXCEPT !.kind = "auth", !.limit = ANONYMOUS_RATE_LIMIT,
                   !.burst = getBurstLimit(ANONYMOUS_RATE_LIMIT),
                   !.allowed = anonymousAllowed, !.error = error,
                   !.keyId = <<"anonymous", anonymousKeySuffix(error), "ip">>,
                   !.status = IF ~anonymousAllowed THEN 429 ELSE ErrorStatus(error)]

\* enforceApiAuth up to its first key-value call, or to its answer
ApiRequest ==
  \E auth \in {"ok"} \cup AuthErrors, rateLimit \in RateLimits, anonymousAllowed \in BOOLEAN :
    IF auth # "ok"
    THEN /\ result' = AnonymousResult(auth, anonymousAllowed)
         /\ UNCHANGED <<paymentStatus, boardStatus, hook, last, owed, failures, run,
                        paymentProvider, others, kv, calls>>
    ELSE IF Bypasses(rateLimit)
    THEN /\ result' = [NoResult EXCEPT !.kind = "auth", !.ok = TRUE, !.status = 200,
                                       !.limit = rateLimit]
         /\ UNCHANGED <<paymentStatus, boardStatus, hook, last, owed, failures, run,
                        paymentProvider, others, kv, calls>>
    ELSE /\ calls = EmptyBag
         /\ BeginCall("auth", rateLimit, getBurstLimit(rateLimit))
         /\ UNCHANGED <<paymentStatus, boardStatus, hook, last, owed, failures, run,
                        paymentProvider, others>>
         /\ result' = NoResult

NoKv == [limit |-> 0, burst |-> 0, hour |-> Absent, minute |-> Absent]

(***************************************************************************)
(* The Ozow access token.  getOzowAccessToken answers from the cache when  *)
(* the key exists; otherwise it asks the token endpoint and caches the     *)
(* token under a time to live computed from expires_in.  `ttl` is the      *)
(* remaining time to live of the cache key (NoKey when it does not exist), *)
(* `life` the time for which the cached token is still valid (Null when    *)
(* the endpoint did not say), `served` how the latest call was answered.   *)
(***************************************************************************)
NoToken == [ttl |-> NoKey, life |-> Null, served |-> "none"]

\* expires_in of the token response: seconds, or absent
ExpiresIn == (1..MaxExpiresIn) \cup {Null}

\* const ttl = Math.max(60, (json.expires_in ?? 3600) - 60)
tokenTtl(expires_in) == Max(60, (IF expires_in = Null THEN 3600 ELSE expires_in) - 60)

\* getOzowAccessToken: kv.get, and on a miss the token request and kv.set
GetToken ==
  /\ IF token.ttl # NoKey
     THEN token' = [token EXCEPT !.served = "cached"]
     ELSE \E expires_in \in ExpiresIn :
            token' = [ttl |-> tokenTtl(expires_in), life |-> expires_in, served |-> "fetched"]
  /\ UNCHANGED <<payments, payout, exec, held, ledger, mapped>>

\* the token request is answered with an error, or without access_token
TokenRequestFails ==
  /\ token.ttl = NoKey
  /\ token' = [NoToken EXCEPT !.served = "failed"]
  /\ UNCHANGED <<payments, payout, exec, held, ledger, mapped>>

\* TickSeconds pass: the key runs down and disappears, the token ages
TokenElapse ==
  /\ token.ttl # NoKey
  /\ token' = [ttl |-> IF token.ttl - TickSeconds <= 0 THEN NoKey ELSE token.ttl - TickSeconds,
               life |-> IF token.life = Null \/ token.ttl - TickSeconds <= 0 THEN Null
                        ELSE Max(0, token.life - TickSeconds),
               served |-> "none"]
  /\ UNCHANGED <<payments, payout, exec, held, ledger, mapped>>

(***************************************************************************)
(* Payout automation.  executeAutomatedPayout reads the payout, marks it   *)
(* processing, asks the provider of the payout's type and records the      *)
(* outcome.  `payout` is the row; `exec` is the call: its position, what   *)
(* the provider answered, the calls of completePayout and failPayout with  *)
(* their argument, the audit events, the writes it made to the row itself  *)
(* and what it returned or threw.                                          *)
(***************************************************************************)
Undefined == "undefined"

AutomatedTypes == {"takealot_gift_card", "karri_card_topup", "philanthropy_donation"}
PayoutTypes == AutomatedTypes \cup {"other"}
PayoutStatuses == {"pending", "processing", "completed", "failed"}

\* the value of the flag of a type in the environment
Flags == {"true", "false", Undefined}

isEnabledFlag(value) == value = "true"

\* the flag of the payout's type read as enabled unless it says false
isAutomationEnabledUnlessFalse(type, flag) == type \in AutomatedTypes /\ flag # "false"

isAutomationEnabledForType(type, flag) == type \in AutomatedTypes /\ isEnabledFlag(flag)

\* what a provider answers: a status, the references it gives (the three of
\* a gift card, or the id of the top-up or donation) and an error message
ProviderStatusesOfPayout == {"completed", "pending", "failed", "rejected"}
NoProviderResult ==
  [status |-> "none", giftCardCode |-> Undefined, giftCardUrl |-> Undefined,
   orderId |-> Undefined, id |-> Undefined, errorMessage |-> Undefined]
ProviderResults(type) ==
  IF type = "takealot_gift_card"
  THEN [status : ProviderStatusesOfPayout, giftCardCode : {Undefined, "GC"},
        giftCardUrl : {Undefined, "URL"}, orderId : {Undefined, "ORDER"}, id : {Undefined},
        errorMessage : {Undefined, "declined"}]
  ELSE [status : ProviderStatusesOfPayout, giftCardCode : {Undefined},
        giftCardUrl : {Undefined}, orderId : {Undefined}, id : {"ID"},
        errorMessage : {Undefined, "declined"}]

\* result.giftCardCode ?? result.giftCardUrl ?? result.orderId ?? 'gift-card'
getGiftCardExternalRef(answer) ==
  IF answer.giftCardCode # Undefined THEN answer.giftCardCode
  ELSE IF answer.giftCardUrl # Undefined THEN answer.giftCardUrl
  ELSE IF answer.orderId # Undefined THEN answer.orderId
  ELSE "gift-card"

\* the reference recorded for a result: of the gift card, result.transactionId, result.donationId
externalRefOf(type, answer) ==
  IF type = "takealot_gift_card" THEN getGiftCardExternalRef(answer) ELSE answer.id

\* result.errorMessage ?? '<what> failed'
errorMessageOf(type, answer) ==
  IF answer.errorMessage # Undefined THEN answer.errorMessage
  ELSE CASE type = "takealot_gift_card" -> "Gift card automation failed"
         [] type = "karri_card_topup" -> "Karri top-up failed"
         [] OTHER -> "Donation automation failed"

\* the error thrown when the row lacks what the provider call needs
missingMessage(type) ==
  CASE type = "takealot_gift_card" -> "Payout email is missing"
    [] type = "karri_card_topup" -> "Karri card number is missing"
    [] OTHER -> "Donation cause is missing"

IdleExec ==
  [pc |-> "idle", flag |-> Undefined, result |-> NoProviderResult, providerCalls |-> 0,
   completeCalls |-> <<>>, failCalls |-> <<>>, audits |-> <<>>, writes |-> 0,
   returned |-> "none", externalRef |-> Undefined, thrown |-> "none"]

Returns(e, status, externalRef) ==
  [e EXCEPT !.pc = "done", !.returned = status, !.externalRef = externalRef]
Throws(e, message) == [e EXCEPT !.pc = "done", !.thrown = message]

\* the checks made before the first write, with the flag not looked at
beginUnguarded(p, flag) ==
  LET e == [IdleExec EXCEPT !.flag = flag]
  IN IF p.status = "completed" THEN Returns(e, "completed", p.externalRef)
     ELSE [e EXCEPT !.pc = "mark"]

\* getPayoutDetail and the checks made before the first write
begin(p, flag) ==
  LET e == [IdleExec EXCEPT !.flag = flag]
  IN IF p.status = "completed" THEN Returns(e, "completed", p.externalRef)
     ELSE IF ~isAutomationEnabledForType(p.type, flag)
     THEN Throws(e, "Automation disabled for payout type")
     ELSE [e EXCEPT !.pc = "mark"]

PayoutStart ==
  /\ exec.pc = "idle"
  /\ ledger < MaxPayoutRequests
  /\ \E flag \in Flags : exec' = begin(payout, flag)
  /\ UNCHANGED <<payments, token, payout, held, ledger, mapped>>

\* await markProcessing(payout)
PayoutMark ==
  /\ exec.pc = "mark"
  /\ payout' = [payout EXCEPT !.status = "processing", !.errorMessage = Undefined]
  /\ exec' = [exec EXCEPT !.pc = "started", !.writes = exec.writes + 1]
  /\ UNCHANGED <<payments, token, held, ledger, mapped>>

\* await recordAuditEvent: payout.automation.started
PayoutAuditStarted ==
  /\ exec.pc = "started"
  /\ exec' = [exec EXCEPT !.pc = "provider",
                          !.audits = Append(exec.audits, "payout.automation.started")]
  /\ UNCHANGED <<payments, token, payout, held, ledger, mapped>>

\* the row lacks the recipient, the card or the cause: thrown inside the try block
PayoutDataMissing ==
  /\ exec.pc = "provider"
  /\ exec' = [exec EXCEPT !.pc = "catch", !.thrown = missingMessage(payout.type)]
  /\ UNCHANGED <<payments, token, payout, held, ledger, mapped>>

\* the provider call rejects
PayoutProviderThrows ==
  /\ exec.pc = "provider"
  /\ exec' = [exec EXCEPT !.pc = "catch", !.thrown = "provider error",
                          !.providerCalls = exec.providerCalls + 1]
  /\ ledger' = ledger + 1
  /\ UNCHANGED <<payments, token, payout, held, mapped>>

\* await issueTakealotGiftCard / topUpKarriCard / createGivenGainDonation
PayoutProvider ==
  /\ exec.pc = "provider"
  /\ \E answer \in ProviderResults(payout.type) :
       exec' = [exec EXCEPT !.pc = "apply", !.result = answer,
                            !.providerCalls = exec.providerCalls + 1]
  /\ ledger' = ledger + 1
  /\ UNCHANGED <<payments, token, payout, held, mapped>>

\* a pending result recorded with completePayout
applyCompletingPending(p, e) ==
  LET externalRef == externalRefOf(p.type, e.result)
  IN IF e.result.status \in {"completed", "pending"}
     THEN [payout |-> [p EXCEPT !.status = "completed", !.externalRef = externalRef],
           exec |-> [e EXCEPT !.pc = "audit",
                              !.completeCalls = Append(e.completeCalls, externalRef)]]
     ELSE [payout |-> [p EXCEPT !.status = "failed",
                                !.errorMessage = errorMessageOf(p.type, e.result)],
           exec |-> [e EXCEPT !.pc = "audit",
                              !.failCalls = Append(e.failCalls, errorMessageOf(p.type, e.result))]]

\* the three branches on result.status: completePayout, the update of the
\* row to processing, failPayout
apply(p, e) ==
  LET externalRef == externalRefOf(p.type, e.result)
  IN IF e.result.status = "completed"
     THEN [payout |-> [p EXCEPT !.status = "completed", !.externalRef = externalRef],
           exec |-> [e EXCEPT !.pc = "audit",
                              !.completeCalls = Append(e.completeCalls, externalRef)]]
     ELSE IF e.result.status = "pending"
     THEN [payout |-> [p EXCEPT !.status = "processing", !.externalRef = externalRef],
           exec |-> [e EXCEPT !.pc = "audit", !.writes = e.writes + 1]]
     ELSE [payout |-> [p EXCEPT !.status = "failed",
                                !.errorMessage = errorMessageOf(p.type, e.result)],
           exec |-> [e EXCEPT !.pc = "audit",
                              !.failCalls = Append(e.failCalls, errorMessageOf(p.type, e.result))]]

PayoutApply ==
  /\ exec.pc = "apply"
  /\ payout' = apply(payout, exec).payout
  /\ exec' = apply(payout, exec).exec
  /\ UNCHANGED <<payments, token, held, ledger, mapped>>

\* await recordAuditEvent of the outcome, and the return
PayoutAudit ==
  /\ exec.pc = "audit"
  /\ exec' = LET status == IF exec.result.status \in {"completed", "pending"}
                           THEN exec.result.status ELSE "failed"
                 e == [exec EXCEPT !.audits = Append(exec.audits, "payout.automation." \o status)]
             IN Returns(e, status,
                        IF status = "failed" THEN Undefined
                        ELSE externalRefOf(payout.type, exec.result))
  /\ UNCHANGED <<payments, token, payout, held, ledger, mapped>>

\* completePayout, the update of the row, failPayout or the audit write of the
\* outcome throws: they are inside the try block
PayoutWriteThrows ==
  /\ exec.pc \in {"apply", "audit"}
  /\ exec' = [exec EXCEPT !.pc = "catch", !.thrown = "write error"]
  /\ UNCHANGED <<payments, token, payout, held, ledger, mapped>>

\* the catch block: failPayout with the message of the error
PayoutCatch ==
  /\ exec.pc = "catch"
  /\ payout' = [payout EXCEPT !.status = "failed", !.errorMessage = exec.thrown]
  /\ exec' = [exec EXCEPT !.pc = "rethrow", !.failCalls = Append(exec.failCalls, exec.thrown)]
  /\ UNCHANGED <<payments, token, held, ledger, mapped>>

\* the catch block: the audit event, and the error thrown again
PayoutRethrow ==
  /\ exec.pc = "rethrow"
  /\ exec' = [exec EXCEPT !.pc = "done",
                          !.audits = Append(exec.audits, "payout.automation.failed")]
  /\ UNCHANGED <<payments, token, payout, held, ledger, mapped>>

\* the call is over
PayoutReturn ==
  /\ exec.pc = "done"
  /\ exec' = IdleExec
  /\ UNCHANGED <<payments, token, payout, held, ledger, mapped>>

(***************************************************************************)
(* Two requests of the reconciliation job at a time.  The server runs one  *)
(* of them up to its next await and may then go on with the other: `run`   *)
(* is the request being run and `held` the one that waits.  Both are       *)
(* authorised, are made at the same time of day and get from the providers *)
(* what `ledger` holds.                                                    *)
(***************************************************************************)
OverlapNow == MaxTime - 1

\* a provider has nothing for the reference, or a transaction for the
\* expected total or for less
LedgerEntries ==
  {NoTx} \cup [status : ProviderStatuses, amount : {MaxAmount}]
         \cup [status : {"completed"}, amount : {MaxAmount - 1}]

OverlapStart ==
  /\ RunStart
  /\ run'.now = OverlapNow
  /\ run'.pc # "done"
  /\ held.pc # "idle" => run'.longTailStart = held.longTailStart

\* the listing of a group holds what the ledger has for each of its members
OverlapList ==
  /\ RunList
  /\ run'.pagingComplete
  /\ \A i \in 1..Len(run'.todo) : run'.txs[run'.todo[i]] = ledger[run'.todo[i]]

OverlapFinish ==
  /\ RunFinish
  /\ ~run'.alertsEnabled
  /\ run'.alertEmail = ""

\* the server goes on with the other request
Switch ==
  /\ run' = held
  /\ held' = run
  /\ run # held
  /\ UNCHANGED <<paymentStatus, boardStatus, hook, last, owed, failures, paymentProvider,
                 kv, calls, result, token, payout, exec, ledger, mapped>>

(***************************************************************************)
(* Calls of the status mappings on payloads of every shape.                *)
(***************************************************************************)
MapOzow ==
  /\ \E payload \in OzowPayloads :
       mapped' = [provider |-> "ozow", payload |-> payload, raw |-> ozowRawStatus(payload),
                  status |-> mapOzowStatus(ozowRawStatus(payload))]
  /\ UNCHANGED <<payments, token, payout, exec, held, ledger>>

MapSnapScan ==
  /\ \E payload \in SnapScanPayloads :
       mapped' = [provider |-> "snapscan", payload |-> payload,
                  raw |-> snapScanRawStatus(payload),
                  status |-> mapSnapScanStatus(snapScanRawStatus(payload))]
  /\ UNCHANGED <<payments, token, payout, exec, held, ledger>>

\* the parts that a specification leaves out are <<>>
OthersIdle ==
  /\ token = <<>>
  /\ payout = <<>>
  /\ exec = <<>>
  /\ held = <<>>
  /\ ledger = <<>>
  /\ mapped = <<>>

Webhook(mode) ==
  \/ ReceiveRejected(mode)
  \/ Receive(mode)
  \/ \E h \in InFlight : Update(h, mode)
  \/ \E h \in InFlight : FundRead(h, mode)
  \/ \E h \in InFlight : FundWrite(h, mode)

Init ==
  /\ paymentStatus = [c \in Contribs |-> "pending"]
  /\ boardStatus \in [Boards -> {"active", "closed"}]
  /\ hook = EmptyBag
  /\ last = NoAnswer
  /\ owed = NoRequest
  /\ failures = 0
  /\ run = IdleRun
  /\ paymentProvider = SeparateProviders
  /\ kv = NoKv
  /\ calls = EmptyBag
  /\ result = NoResult
  /\ OthersIdle

\* concurrent webhook requests
Next == Webhook("concurrent")

Spec == Init /\ [][Next]_vars

\* webhook requests one after the other, each answer kept in `last`
NextSeq == Webhook("traced")

SpecSeq == Init /\ [][NextSeq]_vars

\* webhook requests one after the other, store calls that throw, and the
\* provider's retry of a delivery answered 5xx
NextRetry ==
  \/ Webhook("alone")
  \/ Redeliver("alone")
  \/ \E h \in InFlight : StoreFails(h, "alone")

SpecRetry == Init /\ [][NextRetry]_vars

\* webhook requests one after the other on active boards, the trace keeping
\* whether the delivery carried a timestamp
InitStamp ==
  /\ Init
  /\ boardStatus = [b \in Boards |-> "active"]

NextStamp == Webhook("stamped")

SpecStamp == InitStamp /\ [][NextStamp]_vars

\* two webhook requests that run together: the second delivery arrives while
\* the first is being handled and before any contribution has been written, so
\* that both handlers have read the store as it was
RaceReceive ==
  /\ paymentStatus = [c \in Contribs |-> "pending"]
  /\ hook = EmptyBag \/ \E h \in InFlight : hook = SetToBag({h})
  /\ Receive("concurrent")

NextRace ==
  \/ RaceReceive
  \/ \E h \in InFlight : Update(h, "concurrent")
  \/ \E h \in InFlight : FundRead(h, "concurrent")
  \/ \E h \in InFlight : FundWrite(h, "concurrent")

SpecRace == Init /\ [][NextRace]_vars

\* the status mappings called on one payload after the other
NextMap == MapOzow \/ MapSnapScan

SpecMap == InitStamp /\ [][NextMap]_vars

\* the reconciliation job on contributions that are pending or processing
InitRecon ==
  /\ paymentStatus \in [Contribs -> {"pending", "processing"}]
  /\ boardStatus \in [Boards -> {"active", "closed"}]
  /\ hook = EmptyBag
  /\ last = NoAnswer
  /\ owed = NoRequest
  /\ failures = 0
  /\ run = IdleRun
  /\ paymentProvider \in {SeparateProviders, SharedProvider, MixedProviders}
  /\ kv = NoKv
  /\ calls = EmptyBag
  /\ result = NoResult
  /\ OthersIdle

SpecRecon == InitRecon /\ [][Reconcile]_vars

\* the job with store calls that throw
NextReconFaulty == Reconcile \/ RunStoreFails

SpecReconFaulty == InitRecon /\ [][NextReconFaulty]_vars

\* the job on contributions that are all pending and share providers, where a
\* request that has started is run to its response
InitShared ==
  /\ InitRecon
  /\ paymentStatus = [c \in Contribs |-> "pending"]
  /\ boardStatus = [b \in Boards |-> "active"]
  /\ paymentProvider # SeparateProviders

SpecReconFair == InitShared /\ [][Reconcile]_vars /\ WF_vars(Reconcile)

\* the reconciliation job and webhook requests, one request at a time
NextAll ==
  \/ Webhook("alone")
  \/ hook = EmptyBag /\ Reconcile

SpecAll == Init /\ [][NextAll]_vars

\* the job and webhook requests, one request at a time, on a store where some
\* contributions have been refunded
InitRefund ==
  /\ paymentStatus \in [Contribs -> {"pending", "refunded"}]
  /\ boardStatus = [b \in Boards |-> "active"]
  /\ hook = EmptyBag
  /\ last = NoAnswer
  /\ owed = NoRequest
  /\ failures = 0
  /\ run = IdleRun
  /\ paymentProvider = SeparateProviders
  /\ kv = NoKv
  /\ calls = EmptyBag
  /\ result = NoResult
  /\ OthersIdle

SpecRefund == InitRefund /\ [][NextAll]_vars

\* direct calls of enforceApiRateLimit for one key, one after the other, any of
\* which may throw, while time passes
InitLimiter ==
  /\ paymentStatus = [c \in Contribs |-> "pending"]
  /\ boardStatus = [b \in Boards |-> "active"]
  /\ hook = EmptyBag
  /\ last = NoAnswer
  /\ owed = NoRequest
  /\ failures = 0
  /\ run = IdleRun
  /\ paymentProvider = SeparateProviders
  /\ kv = [NoKv EXCEPT !.limit = MaxLimit, !.burst = MaxBurst]
  /\ calls = EmptyBag
  /\ result = NoResult
  /\ OthersIdle

NextLimiter ==
  \/ Enforce("alone")
  \/ \E call \in Calling : Expire(call)
  \/ \E call \in Calling : Return(call)
  \/ \E call \in Calling : CallFails(call)
  \/ Tick
  \/ Wait

SpecLimiter == InitLimiter /\ [][NextLimiter]_vars

\* concurrent calls of enforceApiRateLimit for one key, none of which throws,
\* while the counters expire
NextConcurrent ==
  \/ Enforce("concurrent")
  \/ \E call \in Calling : Expire(call)
  \/ \E call \in Calling : Return(call)
  \/ Wait

SpecConcurrent == InitLimiter /\ [][NextConcurrent]_vars

\* requests through enforceApiAuth for one key, while time passes
NextApi ==
  \/ ApiRequest
  \/ \E call \in Calling : Expire(call)
  \/ \E call \in Calling : Return(call)
  \/ Tick
  \/ Wait

SpecApi == InitLimiter /\ [][NextApi]_vars

\* direct calls of enforceApiRateLimit for one key, one after the other, none
\* of which throws, by clients that come back when they were told to
NextRetryAfter ==
  \/ Enforce("alone")
  \/ RetryAfter
  \/ \E call \in Calling : Expire(call)
  \/ \E call \in Calling : Return(call)
  \/ Tick
  \/ Wait

SpecRetryAfter == InitLimiter /\ [][NextRetryAfter]_vars

\* calls of getOzowAccessToken one after the other, as time passes
NextToken ==
  \/ GetToken
  \/ TokenRequestFails
  \/ TokenElapse

InitToken ==
  /\ paymentStatus = [c \in Contribs |-> "pending"]
  /\ boardStatus = [b \in Boards |-> "active"]
  /\ hook = EmptyBag
  /\ last = NoAnswer
  /\ owed = NoRequest
  /\ failures = 0
  /\ run = IdleRun
  /\ paymentProvider = SeparateProviders
  /\ kv = NoKv
  /\ calls = EmptyBag
  /\ result = NoResult
  /\ token = NoToken
  /\ payout = <<>>
  /\ exec = <<>>
  /\ held = <<>>
  /\ ledger = <<>>
  /\ mapped = <<>>

SpecToken == InitToken /\ [][NextToken]_vars

\* calls of executeAutomatedPayout one after the other on one payout
InitPayout ==
  /\ paymentStatus = [c \in Contribs |-> "pending"]
  /\ boardStatus = [b \in Boards |-> "active"]
  /\ hook = EmptyBag
  /\ last = NoAnswer
  /\ owed = NoRequest
  /\ failures = 0
  /\ run = IdleRun
  /\ paymentProvider = SeparateProviders
  /\ kv = NoKv
  /\ calls = EmptyBag
  /\ result = NoResult
  /\ token = <<>>
  /\ payout \in [type : PayoutTypes, status : PayoutStatuses \ {"completed"},
                  externalRef : {Undefined}, errorMessage : {Undefined}]
  /\ exec = IdleExec
  /\ held = <<>>
  /\ ledger = 0
  /\ mapped = <<>>

NextPayout ==
  \/ PayoutStart
  \/ PayoutMark
  \/ PayoutAuditStarted
  \/ PayoutDataMissing
  \/ PayoutProviderThrows
  \/ PayoutProvider
  \/ PayoutApply
  \/ PayoutAudit
  \/ PayoutCatch
  \/ PayoutRethrow
  \/ PayoutReturn

SpecPayout == InitPayout /\ [][NextPayout]_vars

\* the same with writes that throw after the provider has answered
NextPayoutFaulty == NextPayout \/ PayoutWriteThrows

SpecPayoutFaulty == InitPayout /\ [][NextPayoutFaulty]_vars

\* two requests of the reconciliation job over the same pending contributions
InitOverlap ==
  /\ paymentStatus = [c \in Contribs |-> "pending"]
  /\ boardStatus \in [Boards -> {"active", "closed"}]
  /\ hook = EmptyBag
  /\ last = NoAnswer
  /\ owed = NoRequest
  /\ failures = 0
  /\ run = IdleRun
  /\ paymentProvider \in {SeparateProviders, SharedProvider, MixedProviders}
  /\ kv = NoKv
  /\ calls = EmptyBag
  /\ result = NoResult
  /\ token = <<>>
  /\ payout = <<>>
  /\ exec = <<>>
  /\ held = IdleRun
  /\ ledger \in [Contribs -> LedgerEntries]
  /\ mapped = <<>>

NextOverlap ==
  \/ OverlapStart
  \/ OverlapList
  \/ RunDecide
  \/ RunUpdate
  \/ RunFundRead
  \/ RunFundWrite
  \/ RunPassEnd
  \/ RunLongTail
  \/ OverlapFinish
  \/ Switch

SpecOverlap == InitOverlap /\ [][NextOverlap]_vars

(***************************************************************************)
(* Properties of the webhook handlers and of the funding check.            *)
(***************************************************************************)
\* the handler or the run that is about to write `status` on contribution c
WebhookWrites(c, status) ==
  \E h \in InFlight : h.pc = "update" /\ h.cid = c /\ h.status = status

JobWrites(c, status) ==
  run.pc = "update" /\ Head(run.todo) = c /\ run.write = status

\* C1 (amount integrity): a contribution is written 'completed' only by a
\* webhook handler or by the reconciliation job, and only when the amount the
\* provider reported equals amountCents + feeCents of that contribution.
AmountIntegrity ==
  /\ [](/\ \A h \in InFlight :
             h.pc = "update" /\ h.status = "completed" => h.amount = ExpectedTotal(h.cid)
        /\ run.pc = "update" /\ run.write = "completed" =>
             run.txs[Head(run.todo)].amount = ExpectedTotal(Head(run.todo)))
  /\ [][\A c \in Contribs :
          paymentStatus[c] # "completed" /\ paymentStatus'[c] = "completed" =>
            WebhookWrites(c, "completed") \/ JobWrites(c, "completed")]_vars

\* one contribution completed by a webhook, another just written completed by the job
AmountIntegrityWitness ==
  /\ paymentStatus[3] = "completed"
  /\ run.pc = "fundRead"
  /\ paymentStatus[Head(run.todo)] = "completed"

\* C2 (completed is terminal): under every interleaving of webhook deliveries,
\* a contribution that is 'completed' stays 'completed'.
CompletedIsTerminal ==
  [][\A c \in Contribs :
       paymentStatus[c] = "completed" => paymentStatus'[c] = "completed"]_vars

\* C3 (idempotent duplicate delivery): a valid 'completed' callback delivered,
\* in sequence, for a contribution that is already completed is answered
\* {received: true}, performs no write and leaves the store and raisedCents as
\* they were.
IdempotentRedelivery ==
  [][(/\ last' # last
      /\ last'.cid # NoContribution
      /\ last'.snap = "completed"
      /\ last'.status = "completed"
      /\ last'.amount = ExpectedTotal(last'.cid))
     => /\ last'.resp = "received"
        /\ HttpStatus(last'.resp) = 200
        /\ last'.writes = 0
        /\ paymentStatus' = paymentStatus
        /\ boardStatus' = boardStatus
        /\ \A b \in Boards :
             raisedCents(b, paymentStatus') = raisedCents(b, paymentStatus)]_vars

\* the second delivery of a completed callback has been answered
IdempotentRedeliveryWitness ==
  /\ last.cid # NoContribution
  /\ last.snap = "completed"
  /\ last.status = "completed"
  /\ last.amount = ExpectedTotal(last.cid)
  /\ last.resp = "received"
  /\ paymentStatus[last.cid] = "completed"

\* C4 (monotonic funding): the status of a board changes only from 'active'
\* to 'funded'; a funded board never goes back to active, and the funding
\* check writes nothing on a board that is not active.
MonotonicFunding ==
  [][\A b \in Boards :
       boardStatus'[b] # boardStatus[b] =>
         boardStatus[b] = "active" /\ boardStatus'[b] = "funded"]_vars

\* a board was funded while another one, closed, has reached its goal
MonotonicFundingWitness ==
  \E b, b2 \in Boards :
    /\ boardStatus[b] = "funded"
    /\ boardStatus[b2] = "closed"
    /\ raisedCents(b2, paymentStatus) >= goalCents[b2]
    /\ hook = EmptyBag
    /\ run.pc = "idle"

\* every delivery has been answered and no retry is owed by a provider
Quiescent == hook = EmptyBag /\ owed = NoRequest

\* C5 (funding is reached): at quiescence, retries of deliveries answered 5xx
\* included, no board is 'active' with raisedCents >= goalCents.
FundingReached ==
  Quiescent =>
    \A b \in Boards :
      raisedCents(b, paymentStatus) >= goalCents[b] => boardStatus[b] # "active"

\* C7 (webhook amount rejection), as the handlers behave: a verified webhook
\* for a contribution that is not completed, with a parsed amount other than
\* amountCents + feeCents, is answered non-2xx whatever status it reports and
\* writes nothing; the error is amount_mismatch, except that the Ozow and
\* SnapScan handlers answer amount_missing for an unparsable amount (the
\* PayFast handler answers amount_mismatch for it too).
AmountRejection ==
  (/\ last.cid # NoContribution
   /\ last.snap \notin {NoStatus, "completed"}
   /\ last.amount # ExpectedTotal(last.cid))
  => /\ last.resp = IF last.amount = Null /\ last.provider # "payfast"
                    THEN "amount_missing" ELSE "amount_mismatch"
     /\ HttpStatus(last.resp) \notin 200..299
     /\ last.writes = 0
     /\ paymentStatus[last.cid] = last.snap

\* the PayFast handler has rejected an unparsable amount
AmountRejectionWitness ==
  /\ last.provider = "payfast"
  /\ last.cid # NoContribution
  /\ last.snap = "pending"
  /\ last.amount = Null
  /\ last.resp = "amount_mismatch"

\* C7 as stated: amount_missing whenever the amount is unparsable, on every handler.
AmountRejectionAsStated ==
  (/\ last.cid # NoContribution
   /\ last.snap \notin {NoStatus, "completed"}
   /\ last.amount # ExpectedTotal(last.cid))
  => /\ last.resp = IF last.amount = Null THEN "amount_missing" ELSE "amount_mismatch"
     /\ HttpStatus(last.resp) \notin 200..299
     /\ last.writes = 0
     /\ paymentStatus[last.cid] = last.snap

(***************************************************************************)
(* Properties of the reconciliation job.                                   *)
(***************************************************************************)
Entries(c, mismatches) == {i \in 1..Len(mismatches) : mismatches[i].paymentRef = c}

\* C6 (mismatch surfacing): when the job decides on a contribution whose
\* provider transaction maps to completed with an amount that is null or
\* differs from amountCents + feeCents, it appends exactly one entry for it to
\* the mismatches list, adds one to unresolved, and writes no status.
MismatchSurfacing ==
  [][(/\ run.pc = "decide"
      /\ run.txs[Head(run.todo)].status = "completed"
      /\ run.txs[Head(run.todo)].amount # ExpectedTotal(Head(run.todo)))
     => LET c == Head(run.todo)
        IN /\ Len(run'.mismatches) = Len(run.mismatches) + 1
           /\ Cardinality(Entries(c, run'.mismatches)) = 1
           /\ run'.mismatches[Len(run'.mismatches)] =
                [provider |-> paymentProvider[c], paymentRef |-> c,
                 expectedTotal |-> ExpectedTotal(c),
                 receivedTotal |-> run.txs[c].amount, status |-> "completed"]
           /\ run'.unresolved = run.unresolved + 1
           /\ run'.updated = run.updated /\ run'.failed = run.failed
           /\ run'.pc # "update"
           /\ paymentStatus' = paymentStatus]_vars

\* a run has reported a mismatch on a completed transaction with no amount
MismatchSurfacingWitness ==
  /\ run.pc = "done"
  /\ run.report.mismatches = 1
  /\ run.report.unresolved >= 1
  /\ \E i \in 1..Len(run.primary.mismatches) : run.primary.mismatches[i].receivedTotal = Null

\* C8 (window disjointness): the contributions given to the primary pass and
\* those given to the long-tail pass of one run are disjoint, by their
\* creation times, and scanned counts each of them once.
WindowDisjointness ==
  /\ run.primarySet \cap run.longTailSet = {}
  /\ \A c \in run.primarySet : run.lookbackStart <= createdAt[c] /\ createdAt[c] < run.cutoff
  /\ \A c \in run.longTailSet :
       run.longTailStart <= createdAt[c] /\ createdAt[c] < run.lookbackStart
  /\ run.pc = "done" /\ run.report.status = 200 =>
       run.report.scanned = Cardinality(run.primarySet \cup run.longTailSet)

\* a run whose two passes both had contributions
WindowDisjointnessWitness ==
  /\ run.pc = "done"
  /\ run.primarySet # {}
  /\ run.longTailSet # {}
  /\ run.report.scanned = 3

\* C9 (long-tail skip): the long-tail query is issued only if longTailStart <
\* lookbackStart; otherwise the run issues no long-tail query, logs the skip,
\* and reports 0 in every long-tail counter and the primary counters as totals.
LongTailSkip ==
  /\ run.longTailQueries > 0 => run.longTailStart < run.lookbackStart
  /\ run.skipLogged => run.longTailStart >= run.lookbackStart
  /\ (/\ run.pc = "done"
      /\ run.report.status = 200
      /\ run.longTailStart >= run.lookbackStart)
     => /\ run.longTailQueries = 0
        /\ run.longTailSet = {}
        /\ run.skipLogged
        /\ run.report.longTail = ZeroCounters
        /\ run.report.scanned = run.primary.scanned
        /\ run.report.updated = run.primary.updated
        /\ run.report.failed = run.primary.failed
        /\ run.report.unresolved = run.primary.unresolved
        /\ run.report.mismatches = Len(run.primary.mismatches)

\* a run that skipped the long tail after a primary pass that scanned something
LongTailSkipWitness ==
  /\ run.pc = "done"
  /\ run.skipLogged
  /\ run.longTailStart = run.lookbackStart
  /\ run.report.scanned > 0

\* C10 (decision function): on the provider's status and amount for a
\* contribution, the job acts on update(completed) iff the status is completed
\* and the amount equals the expected total, on update(failed) iff the status
\* is failed whatever the amount, on a mismatch iff the status is completed
\* and the amount is null or differs, and on none otherwise; the decision is
\* a function of those inputs.
DecisionOutcome(status, expectedTotal, receivedTotal) ==
  CASE status = "completed" /\ receivedTotal = expectedTotal -> "update_completed"
    [] status = "failed" -> "update_failed"
    [] status = "completed" /\ receivedTotal # expectedTotal -> "mismatch"
    [] OTHER -> "none"

DecisionFunction ==
  [][(run.pc = "decide" /\ run.txs[Head(run.todo)] # NoTx)
     => LET c == Head(run.todo)
            tx == run.txs[c]
            outcome == DecisionOutcome(tx.status, ExpectedTotal(c), tx.amount)
        IN /\ (run'.pc = "update" /\ run'.write = "completed") <=> outcome = "update_completed"
           /\ (run'.pc = "update" /\ run'.write = "failed") <=> outcome = "update_failed"
           /\ Len(run'.mismatches) = Len(run.mismatches) + 1 <=> outcome = "mismatch"
           /\ (/\ run'.pc # "update"
               /\ run'.mismatches = run.mismatches
               /\ run'.unresolved = run.unresolved + 1) <=> outcome = "none"
           /\ outcome = "mismatch" =>
                LET m == run'.mismatches[Len(run'.mismatches)]
                IN /\ m.expectedTotal = ExpectedTotal(c)
                   /\ m.receivedTotal = tx.amount
                   /\ m.status = tx.status]_vars

\* a failed transaction with a wrong amount is about to be written failed
DecisionFunctionWitness ==
  /\ run.pc = "update"
  /\ run.write = "failed"
  /\ run.txs[Head(run.todo)].amount # ExpectedTotal(Head(run.todo))


(***************************************************************************)
(* Webhook handlers and reconciliation job compared.                       *)
(***************************************************************************)
\* a reconciliation pass standing at contribution c, the only one of its group
PassAt(c) ==
  [IdleRun EXCEPT !.pc = "decide", !.phase = "primary", !.todo = <<c>>,
                  !.groups = <<[provider |-> paymentProvider[c], members |-> <<c>>]>>]

\* the paymentStatus of c after the job has applied its decision on a listed
\* transaction of mapped status `status` and amount `receivedTotal`
JobStored(c, snap, status, receivedTotal) ==
  LET r == handleDecision(PassAt(c), c,
             decideReconciliation(status, getExpectedTotal(amountCents[c], feeCents[c]),
                                  receivedTotal))
  IN IF r.pc = "update" THEN r.write ELSE snap

\* C11: for a contribution that is not completed, the paymentStatus stored once
\* a webhook handler has answered a callback of mapped status s and parsed
\* amount r is the one the job stores on the same status, expected total and
\* amount.
PolicyEquivalence ==
  (/\ last.cid # NoContribution
   /\ last.snap \notin {NoStatus, "completed"}
   /\ last.resp # "server_error")
  => paymentStatus[last.cid] = JobStored(last.cid, last.snap, last.status, last.amount)


(***************************************************************************)
(* Properties of the API rate limiter.                                     *)
(***************************************************************************)
\* C12: a call is allowed exactly when the hour count it incremented to is at
\* most the limit and the minute count at most the burst; so no more than
\* `limit` calls are allowed in one lifetime of the hour counter and no more
\* than `burst` in one lifetime of the minute counter.
AllowedWithinLimits ==
  /\ result.kind = "rateLimit"
       => (result.allowed <=> (result.hourCount <= result.limit
                               /\ result.minuteCount <= result.burst))
  /\ kv.hour.allowed <= kv.limit
  /\ kv.minute.allowed <= kv.burst

\* `limit` calls were allowed in this lifetime of the hour counter and the next
\* one, alone in its minute, is denied
AllowedWithinLimitsWitness ==
  /\ result.kind = "rateLimit"
  /\ ~result.allowed
  /\ result.hourCount = kv.limit + 1
  /\ result.minuteCount <= kv.burst
  /\ kv.hour.allowed = kv.limit


\* what a result must carry when the binding counter's reset is hourReset or
\* minuteReset
ResetsFrom(hourReset, minuteReset) ==
  /\ result.allowed
       => result.retryAfterSeconds = Null /\ result.resetSeconds = hourReset
  /\ ~result.allowed /\ result.hourCount > result.limit
       => result.retryAfterSeconds = hourReset /\ result.resetSeconds = hourReset
  /\ ~result.allowed /\ result.hourCount <= result.limit
       => result.retryAfterSeconds = minuteReset /\ result.resetSeconds = minuteReset

\* C13: a denial carries as retryAfterSeconds and reset the remaining time to
\* live of the hour counter if the hour limit is exceeded and of the minute
\* counter if only the burst is; an allowed call carries no retryAfterSeconds
\* and the hour counter's remaining time as reset.  Where the counter has no
\* time to live left when it is read, the full window stands in for it.
BindingWindow ==
  result.kind = "rateLimit"
  => ResetsFrom(IF ttl(kv.hour) > 0 THEN ttl(kv.hour) ELSE HOUR_SECONDS,
                IF ttl(kv.minute) > 0 THEN ttl(kv.minute) ELSE MINUTE_SECONDS)

\* a call denied on the hour limit alone, part of the hour window gone
BindingWindowWitness ==
  /\ result.kind = "rateLimit"
  /\ ~result.allowed
  /\ result.hourCount > result.limit
  /\ result.minuteCount <= result.burst
  /\ ttl(kv.hour) > 0
  /\ ttl(kv.hour) < HOUR_SECONDS
  /\ result.retryAfterSeconds = ttl(kv.hour)

\* C13 as stated: the values are the counters' remaining times to live, whatever
\* the counters held when they were read.
BindingWindowAsStated == result.kind = "rateLimit" => ResetsFrom(ttl(kv.hour), ttl(kv.minute))


\* the least time a counter has existed: the time it spent without a time to
\* live (counted up to TickSeconds) and the part of its window that has run down
Lifetime(k, window) == k.bare + (IF k.ttl > 0 THEN window - k.ttl ELSE 0)

\* C14: a counter is gone at most one window after the first increment of its
\* current lifetime: while it exists, less than its window has passed since
\* that increment.
SelfExpiring ==
  /\ kv.hour.ttl # NoKey => Lifetime(kv.hour, HOUR_SECONDS) < HOUR_SECONDS
  /\ kv.minute.ttl # NoKey => Lifetime(kv.minute, MINUTE_SECONDS) < MINUTE_SECONDS


\* C15: a request with an authenticated key whose rateLimit is <= 0 is admitted
\* (ok) without any call to the key-value store, and the step that answers it
\* leaves the counters and the calls in flight as they are, whatever they hold.
LimitBypass ==
  /\ [](result.kind = "auth" /\ result.limit <= 0
          => result.ok /\ result.status = 200 /\ result.kvCalls = 0)
  /\ [][result'.kind = "auth" /\ result'.limit <= 0 => kv' = kv /\ calls' = calls]_vars

\* a request of a key with rateLimit 0 admitted while the hour counter stands
\* above every limit and another request is in flight
LimitBypassWitness ==
  /\ result.kind = "auth"
  /\ result.limit = 0
  /\ result.ok
  /\ kv.hour.count > MaxLimit
  /\ calls # EmptyBag


(***************************************************************************)
(* Further properties of the reconciliation job.                           *)
(***************************************************************************)
Unauthorized(r) == r.secret = "" \/ r.authHeader # <<"Bearer", r.secret>>

\* C16: a request made while no secret is configured is answered 503 and one
\* whose Authorization header is not exactly "Bearer <secret>" 401; either is
\* answered at once: no query, no listing, no alert, no counter, and the step
\* writes neither a contribution nor a board.
TriggerFailSafe ==
  /\ [](run.pc # "idle" /\ Unauthorized(run)
          => run = Rejected(run.secret, run.authHeader, IF run.secret = "" THEN 503 ELSE 401))
  /\ [][run.pc = "idle" /\ run'.pc # "idle" /\ Unauthorized(run')
          => UNCHANGED <<paymentStatus, boardStatus>>]_vars

\* a bearer token that is not the secret has been answered 401 while
\* contributions are waiting to be reconciled
TriggerFailSafeWitness ==
  /\ run.pc = "done"
  /\ run.secret = "s1"
  /\ run.authHeader = <<"Bearer", "s2">>
  /\ run.report.status = 401
  /\ \E c \in Contribs : paymentStatus[c] = "pending"


\* C17: when a provider's listing fails in a pass, every contribution of that
\* provider's group keeps its status and is counted unresolved for the pass,
\* nothing else is counted, the pass goes on with the next group (or ends, and
\* the other pass is decided as usual), and the request still ends with its
\* report.
ListingFailure ==
  /\ [][run'.listFailures > run.listFailures
          => /\ UNCHANGED <<paymentStatus, boardStatus>>
             /\ run'.unresolved = run.unresolved + Len(Head(run.groups).members)
             /\ <<run'.scanned, run'.updated, run'.failed, run'.mismatches>>
                  = <<run.scanned, run.updated, run.failed, run.mismatches>>
             /\ <<run'.primary, run'.longTail, run'.phase>>
                  = <<run.primary, run.longTail, run.phase>>
             /\ run'.groups = Tail(run.groups)
             /\ run'.pc = IF Tail(run.groups) = <<>> THEN "passEnd" ELSE "list"]_vars
  /\ (run.listFailures > 0 /\ run.pc # "done")
       ~> (run.pc = "done" /\ run.report.status = 200 /\ run.listFailures > 0)

\* the Ozow listing failed in the primary pass on a group of two, which is
\* left as it was; the SnapScan contribution of the long-tail pass was
\* completed, and the report is out
ListingFailureWitness ==
  /\ run.pc = "done"
  /\ run.report.status = 200
  /\ run.listFailures = 1
  /\ run.primary.scanned = 2
  /\ run.primary.unresolved = 2
  /\ run.longTail.updated = 1
  /\ paymentProvider = SharedProvider
  /\ paymentStatus[1] = "completed"
  /\ paymentStatus[2] = "pending"
  /\ paymentStatus[3] = "pending"


\* C18: a scanned contribution whose paymentRef is not among the listed
\* transactions keeps its status and adds exactly one to unresolved and
\* nothing to the other counters; no update and no funding check is made
\* for it.
AbsentReference ==
  /\ [](run.pc \in {"update", "fundRead", "fundWrite"} => run.txs[Head(run.todo)] # NoTx)
  /\ [][run.pc = "decide" /\ run.txs[Head(run.todo)] = NoTx
          => /\ UNCHANGED <<paymentStatus, boardStatus>>
             /\ run'.unresolved = run.unresolved + 1
             /\ <<run'.scanned, run'.updated, run'.failed, run'.mismatches>>
                  = <<run.scanned, run.updated, run.failed, run.mismatches>>
             /\ run'.pc \in {"decide", "list", "passEnd"}]_vars

\* of a group of two, the first was not listed and has been counted; the
\* second, which is listed, is next
AbsentReferenceWitness ==
  /\ run.pc = "decide"
  /\ Len(Head(run.groups).members) = 2
  /\ run.todo = Tail(Head(run.groups).members)
  /\ run.txs[Head(run.groups).members[1]] = NoTx
  /\ run.txs[Head(run.todo)] # NoTx
  /\ run.unresolved = 1
  /\ paymentStatus[Head(run.groups).members[1]] = "pending"


(***************************************************************************)
(* Answers of the webhook handlers.                                        *)
(***************************************************************************)
\* the codes the interface names for a rejection
RejectionCodes ==
  {"invalid_signature", "invalid_source", "invalid_merchant", "invalid_payload",
   "missing_reference", "not_found", "amount_missing", "amount_mismatch", "rate_limited",
   "invalid_timestamp"}

\* the answers a handler gives itself: not the 5xx of a store call that throws
Rejection == last.resp \notin {"none", "received", "server_error"}

\* C19: every rejection of a webhook handler is a non-2xx answer whose code is
\* one of the ten named codes or, on the PayFast handler, invalid_itn or
\* missing_pf_payment_id.
RejectionCode ==
  Rejection
  => /\ HttpStatus(last.resp) \notin 200..299
     /\ \/ last.resp \in RejectionCodes
        \/ last.provider = "payfast" /\ last.resp \in {"invalid_itn", "missing_pf_payment_id"}

\* the PayFast handler has rejected a notification that PayFast does not confirm
RejectionCodeWitness ==
  /\ last.provider = "payfast"
  /\ last.resp = "invalid_itn"
  /\ HttpStatus(last.resp) = 400

\* C19 as stated: the code of every rejection is one of the ten named codes.
RejectionCodeAsStated ==
  Rejection => HttpStatus(last.resp) \notin 200..299 /\ last.resp \in RejectionCodes


\* C20: a callback that passes every check up to the amount check is answered
\* 2xx {received: true} whatever its mapped status, and the funding check runs
\* only for a mapped status of completed.
Acknowledged ==
  /\ (/\ last.cid # NoContribution
      /\ last.resp \notin {"none", "server_error"}
      /\ last.amount = ExpectedTotal(last.cid))
     => last.resp = "received" /\ HttpStatus(last.resp) \in 200..299
  /\ \A h \in InFlight : h.pc \in {"fundRead", "fundWrite"} => h.status = "completed"
  /\ last.writes > 1 => last.status = "completed"

\* a callback of mapped status failed with the right amount has been stored
\* and acknowledged, with no funding check
AcknowledgedWitness ==
  /\ last.cid # NoContribution
  /\ last.snap = "pending"
  /\ last.status = "failed"
  /\ last.amount = ExpectedTotal(last.cid)
  /\ last.resp = "received"
  /\ last.writes = 1
  /\ paymentStatus[last.cid] = "failed"


\* the codes of the checks made before the contribution is looked up
EarlyCodes ==
  {"rate_limited", "invalid_signature", "invalid_source", "invalid_merchant", "invalid_payload",
   "invalid_itn", "invalid_timestamp", "missing_pf_payment_id", "missing_reference"}

\* C21: a request that ends in a rejection leaves every contribution and every
\* board as it was and has written nothing; when the rejection comes from rate
\* limiting, verification, parsing, the timestamp check or the extraction of
\* the reference, the contribution has not been looked up either.
FailFastFrame ==
  /\ [](Rejection => last.writes = 0)
  /\ [](Rejection /\ last.resp \in EarlyCodes => last.reads = 0 /\ last.cid = NoContribution)
  /\ [](Rejection /\ last.resp \notin EarlyCodes => last.reads = 1)
  /\ [][hook = EmptyBag /\ hook' = EmptyBag /\ Rejection'
          => UNCHANGED <<paymentStatus, boardStatus>>]_vars

\* a SnapScan callback with a stale timestamp has been rejected after other
\* callbacks changed a contribution and a board
FailFastFrameWitness ==
  /\ last.provider = "snapscan"
  /\ last.resp = "invalid_timestamp"
  /\ last.reads = 0
  /\ \E c \in Contribs : paymentStatus[c] = "completed"
  /\ \E b \in Boards : boardStatus[b] = "funded"


\* the providers whose handler checks a timestamp
Timestamped == {"payfast", "snapscan"}

\* C25: a callback with no timestamp field gets the answer, and starts the
\* handler, of the same callback with a fresh timestamp, so that both end in
\* the same store state; a callback whose timestamp fails validation is
\* answered invalid_timestamp with no store read and no store write.
TolerantTimestamp ==
  /\ [](hook = EmptyBag =>
         \A provider \in Timestamped, ref \in Refs, raw \in RawStatuses, amount \in Amounts :
           LET req == [provider |-> provider, ref |-> ref,
                       status |-> mapStatus(provider, raw), amount |-> amount]
           IN /\ DeliverOutcome(provider, "no_timestamp", req, "traced")
                   = DeliverOutcome(provider, "none", req, "traced")
              /\ DeliverOutcome(provider, "stale_timestamp", req, "traced")
                   = [last |-> RejectedBeforeLookup(provider, "invalid_timestamp"), hook |-> hook])
  /\ [](last.resp = "invalid_timestamp" => last.reads = 0 /\ last.writes = 0)
  /\ [][last'.resp = "invalid_timestamp" /\ last' # last
          => UNCHANGED <<paymentStatus, boardStatus, hook>>]_vars

\* a PayFast notification with no timestamp completed a contribution and
\* funded its board
TolerantTimestampWitness ==
  /\ last.provider = "payfast"
  /\ last.defect = "no_timestamp"
  /\ last.resp = "received"
  /\ last.writes = 2
  /\ paymentStatus[last.cid] = "completed"
  /\ boardStatus[dreamBoardId[last.cid]] = "funded"

\* a SnapScan callback with a stale timestamp was rejected after a
\* contribution was completed
StaleTimestampRejected ==
  /\ last.provider = "snapscan"
  /\ last.resp = "invalid_timestamp"
  /\ \E c \in Contribs : paymentStatus[c] = "completed"


ConsolidatedAlert ==
  /\ [](run.alertCalls \in {0, 1})
  /\ [](run.pc = "done" /\ Unauthorized(run) => run.alertCalls = 0)
  /\ [](run.pc = "done" /\ ~Unauthorized(run) =>
         /\ run.alertCalls = 1 <=>
              /\ run.alertsEnabled
              /\ run.alertEmail # ""
              /\ Len(run.primary.mismatches) + Len(run.longTail.mismatches) > 0
         /\ run.alertFailed => run.alertCalls = 1
         /\ run.report.status = 200
         /\ run.report = ReportOf(run.primary, run.longTail))
  /\ [][run.pc = "finish" /\ run'.pc = "done"
          => UNCHANGED <<paymentStatus, boardStatus>>]_vars

\* the alert on a mismatch of the long-tail pass failed and the run answers 200
ConsolidatedAlertWitness ==
  /\ run.pc = "done"
  /\ run.alertFailed
  /\ run.primary.mismatches = <<>>
  /\ Len(run.longTail.mismatches) > 0
  /\ run.report.status = 200
  /\ run.report.mismatches > 0


\* the contributions of the pass in progress, and the PayFast ones among them
PassSet == IF run.phase = "long_tail" THEN run.longTailSet ELSE run.primarySet
PayfastOf(S) == {c \in S : paymentProvider[c] = "payfast"}

\* C27: the job never writes the status of a PayFast contribution and never
\* decides, updates or runs the funding check for one; at the end of a pass
\* every scanned PayFast contribution has added one to unresolved and nothing
\* to updated, failed or the mismatches.
NoListingProvider ==
  /\ [][\A c \in Contribs : paymentProvider[c] = "payfast" => paymentStatus'[c] = paymentStatus[c]]_vars
  /\ [](run.pc \in {"decide", "update", "fundRead", "fundWrite"}
          => paymentProvider[Head(run.todo)] # "payfast")
  /\ [](run.pc = "passEnd" =>
         /\ run.unresolved >= Cardinality(PayfastOf(PassSet))
         /\ run.updated + run.failed + run.unresolved = run.scanned
         /\ run.updated + run.failed + Len(run.mismatches)
              <= run.scanned - Cardinality(PayfastOf(PassSet))
         /\ \A i \in 1..Len(run.mismatches) : run.mismatches[i].provider # "payfast"
         /\ PayfastOf(PassSet) = PassSet =>
              /\ run.unresolved = run.scanned
              /\ run.updated = 0 /\ run.failed = 0 /\ run.mismatches = <<>>)

\* a pass that scanned a PayFast contribution and completed another one ends
NoListingProviderWitness ==
  /\ run.pc = "passEnd"
  /\ PayfastOf(PassSet) # {}
  /\ run.scanned = 2
  /\ run.updated = 1
  /\ run.unresolved = 1
  /\ \A c \in PayfastOf(PassSet) : paymentStatus[c] \in {"pending", "processing"}


\* C28: an Ozow listing whose paging did not complete is matched like a
\* complete one: the whole group is gone through, a contribution that is
\* listed gets the decision on its transaction, one that is not listed is
\* counted unresolved, and the catch block is not run.
PartialPaging ==
  /\ [](~run.pagingComplete =>
          /\ run.pc \in {"decide", "update", "fundRead", "fundWrite"}
          /\ Head(run.groups).provider = "ozow")
  /\ [][run.pc = "list" /\ ~run'.pagingComplete
          => /\ run'.todo = Head(run.groups).members
             /\ run'.unresolved = run.unresolved]_vars
  /\ [][~run.pagingComplete => run'.listFailures = run.listFailures]_vars
  /\ [][~run.pagingComplete /\ run.pc = "decide"
          => LET c == Head(run.todo)
                 tx == run.txs[c]
                 decision == decideReconciliation(tx.status,
                                                  getExpectedTotal(amountCents[c], feeCents[c]),
                                                  tx.amount)
             IN IF tx = NoTx
                THEN run'.unresolved = run.unresolved + 1 /\ run'.pc # "update"
                ELSE IF decision.action = "update"
                THEN run'.pc = "update" /\ run'.write = decision.status
                                        /\ run'.unresolved = run.unresolved
                ELSE run'.unresolved = run.unresolved + 1]_vars

\* of a group of two listed with incomplete paging, the first was not among
\* the transactions received and the second is being completed
PartialPagingWitness ==
  /\ ~run.pagingComplete
  /\ run.pc = "update"
  /\ run.write = "completed"
  /\ Len(Head(run.groups).members) = 2
  /\ run.todo = Tail(Head(run.groups).members)
  /\ run.txs[Head(run.groups).members[1]] = NoTx
  /\ run.unresolved = 1
  /\ run.listFailures = 0


(***************************************************************************)
(* The cache of the Ozow access token.                                     *)
(***************************************************************************)
\* C29: the time to live under which a token is cached is smaller than the
\* expires_in it came with, and a token answered from the cache is still
\* within its lifetime.
TokenCacheFresh ==
  /\ token.served = "fetched" /\ token.life # Null => token.ttl < token.life
  /\ token.served = "cached" /\ token.life # Null => token.life > 0


(***************************************************************************)
(* Payout automation.                                                      *)
(***************************************************************************)
Disabled == "Automation disabled for payout type"

\* C22: when automation is not enabled for the type of a payout that is not
\* completed, the call throws 'Automation disabled for payout type' at once:
\* the row is as it was, no write, no audit event, no provider call.
AutomationDisabled ==
  /\ [][exec.pc = "idle" /\ exec'.pc # "idle" /\ payout.status # "completed"
          /\ ~(payout.type \in AutomatedTypes /\ exec'.flag = "true")
          => /\ exec'.pc = "done"
             /\ exec'.thrown = Disabled
             /\ exec'.returned = "none"
             /\ payout' = payout]_vars
  /\ [](exec.thrown = Disabled =>
          /\ exec.writes = 0 /\ exec.audits = <<>> /\ exec.providerCalls = 0
          /\ exec.completeCalls = <<>> /\ exec.failCalls = <<>>)
  /\ [](exec.pc \notin {"idle", "done"} => payout.type \in AutomatedTypes /\ exec.flag = "true")

\* a call on a failed gift-card payout whose flag is not set has thrown
AutomationDisabledWitness ==
  /\ exec.pc = "done"
  /\ exec.thrown = Disabled
  /\ exec.flag = Undefined
  /\ payout.type = "takealot_gift_card"
  /\ payout.status = "failed"

\* C23: a call that got an answer from the provider ends according to the
\* status of the answer.  completed: completePayout is called once with the
\* reference of the answer, failPayout is not, and the call returns completed
\* with that reference.  pending: the row is processing with the reference,
\* completePayout and failPayout are not called, and the call returns
\* pending.  Any other status: failPayout is called once with the error
\* message of the answer, completePayout is not, and the call returns failed.
PayoutOutcome ==
  exec.pc = "done" /\ exec.result # NoProviderResult =>
    LET r == exec.result
        ref == IF payout.type # "takealot_gift_card" THEN r.id
               ELSE IF r.giftCardCode # Undefined THEN r.giftCardCode
               ELSE IF r.giftCardUrl # Undefined THEN r.giftCardUrl
               ELSE IF r.orderId # Undefined THEN r.orderId
               ELSE "gift-card"
    IN /\ exec.thrown = "none"
       /\ exec.providerCalls = 1
       /\ payout.type \in AutomatedTypes
       /\ r.status = "completed" =>
            /\ exec.completeCalls = <<ref>> /\ exec.failCalls = <<>>
            /\ exec.returned = "completed" /\ exec.externalRef = ref
       /\ r.status = "pending" =>
            /\ payout.status = "processing" /\ payout.externalRef = ref
            /\ exec.completeCalls = <<>> /\ exec.failCalls = <<>>
            /\ exec.returned = "pending" /\ exec.externalRef = ref
       /\ r.status \notin {"completed", "pending"} =>
            /\ Len(exec.failCalls) = 1
            /\ r.errorMessage # Undefined => exec.failCalls = <<r.errorMessage>>
            /\ exec.completeCalls = <<>>
            /\ exec.returned = "failed"

\* a donation answered pending has returned pending with the donation's id
PayoutOutcomeWitness ==
  /\ exec.pc = "done"
  /\ payout.type = "philanthropy_donation"
  /\ exec.result.status = "pending"
  /\ exec.returned = "pending"
  /\ exec.externalRef = "ID"
  /\ payout.status = "processing"


(***************************************************************************)
(* Overlapping runs of the reconciliation job.                             *)
(***************************************************************************)
\* what one run started at r.now scans, decides and leaves
ScannedBy(r) ==
  {c \in Contribs :
     \/ r.lookbackStart <= createdAt[c] /\ createdAt[c] < r.cutoff
     \/ /\ r.longTailStart < r.lookbackStart
        /\ r.longTailStart <= createdAt[c] /\ createdAt[c] < r.lookbackStart}

DecisionFor(c) ==
  decideReconciliation(ledger[c].status, getExpectedTotal(amountCents[c], feeCents[c]),
                       ledger[c].amount)

LeftBy(r, c) ==
  IF /\ c \in ScannedBy(r)
     /\ paymentProvider[c] # "payfast"
     /\ ledger[c] # NoTx
     /\ DecisionFor(c).action = "update"
  THEN DecisionFor(c).status
  ELSE "pending"

CompletedBy(r, b) == {c \in Contribs : dreamBoardId[c] = b /\ LeftBy(r, c) = "completed"}

RunsOver ==
  /\ run.pc \in {"idle", "done"}
  /\ held.pc \in {"idle", "done"}
  /\ run.pc = "done" \/ held.pc = "done"

\* C30: when one run, or two runs overlapping in any way, are over, every
\* contribution has the status one run alone leaves, every board that was
\* not closed is funded exactly when one run alone funds it, and the raised
\* amount of a board is the sum of the net amounts of its completed
\* contributions, each taken once.
OverlapHarmless ==
  RunsOver =>
    LET r == IF run.pc = "done" THEN run ELSE held
    IN /\ \A c \in Contribs : paymentStatus[c] = LeftBy(r, c)
       /\ \A b \in Boards :
            /\ boardStatus[b] \in {"active", "funded", "closed"}
            /\ boardStatus[b] # "closed" =>
                 (boardStatus[b] = "funded" <=>
                    /\ CompletedBy(r, b) # {}
                    /\ SumNet(CompletedBy(r, b), [c \in Contribs |-> "completed"]) >= goalCents[b])
            /\ raisedCents(b, paymentStatus)
                 = SumNet(CompletedBy(r, b), [c \in Contribs |-> "completed"])

\* two runs that both updated a contribution are over and a board is funded
OverlapHarmlessWitness ==
  /\ run.pc = "done"
  /\ held.pc = "done"
  /\ run.report.updated >= 1
  /\ held.report.updated >= 1
  /\ run.report.scanned = held.report.scanned
  /\ boardStatus[1] = "funded"

(***************************************************************************)
(* Webhook requests handled together.                                      *)
(***************************************************************************)
\* handlers that are about to write 'completed' on c and on d
Completing(c, d) ==
  \E h, k \in InFlight :
    /\ h.cid = c /\ h.status = "completed" /\ h.pc = "update"
    /\ k.cid = d /\ k.status = "completed" /\ k.pc = "update"

SameBoard(c, d) == c # d /\ dreamBoardId[c] = dreamBoardId[d]

\* C31 (concurrent completions on one board): when the handlers of two
\* different contributions of one board run together and both write
\* 'completed', then however their writes and funding checks interleave, both
\* contributions are completed once the handlers are done and the board, if it
\* was active and the two net amounts reach its goal, is funded.
ConcurrentCompletions ==
  \A c, d \in Contribs :
    SameBoard(c, d) =>
      /\ [](Completing(c, d) =>
              [](hook = EmptyBag =>
                   paymentStatus[c] = "completed" /\ paymentStatus[d] = "completed"))
      /\ [](Completing(c, d) /\ boardStatus[dreamBoardId[c]] = "active" =>
              [](hook = EmptyBag /\ netCents[c] + netCents[d] >= goalCents[dreamBoardId[c]] =>
                   boardStatus[dreamBoardId[c]] = "funded"))

\* both handlers are done: the two contributions are completed and their board,
\* which was active, is funded
ConcurrentCompletionsWitness ==
  \E c, d \in Contribs :
    /\ SameBoard(c, d)
    /\ hook = EmptyBag
    /\ paymentStatus[c] = "completed"
    /\ paymentStatus[d] = "completed"
    /\ netCents[c] + netCents[d] >= goalCents[dreamBoardId[c]]
    /\ boardStatus[dreamBoardId[c]] = "funded"

\* two deliveries of one 'completed' callback for c, both past the lookup and
\* neither past its write
Duplicated(c) ==
  \E h \in InFlight :
    h.cid = c /\ h.status = "completed" /\ h.pc = "update" /\ CopiesIn(h, hook) = 2

\* C32 (concurrent duplicate delivery): when two deliveries of one valid
\* 'completed' callback are handled together, both having read the
\* contribution before either writes, then however they interleave the
\* contribution is completed once they are done, raisedCents of its board holds
\* its netCents once, an active board whose goal is reached is funded, and a
\* funded board stays funded: the status goes from active to funded at most
\* once.
ConcurrentDuplicate ==
  /\ \A c \in Contribs :
       /\ [](Duplicated(c) =>
               [](hook = EmptyBag =>
                    /\ paymentStatus[c] = "completed"
                    /\ raisedCents(dreamBoardId[c], paymentStatus) = netCents[c]))
       /\ [](Duplicated(c) /\ boardStatus[dreamBoardId[c]] = "active" =>
               [](hook = EmptyBag /\ netCents[c] >= goalCents[dreamBoardId[c]] =>
                    boardStatus[dreamBoardId[c]] = "funded"))
  /\ [][\A b \in Boards : boardStatus[b] = "funded" => boardStatus'[b] = "funded"]_vars

\* both deliveries have found the board active with its goal reached, and both
\* are about to write 'funded'
ConcurrentDuplicateWitness ==
  \E h \in InFlight :
    /\ h.status = "completed"
    /\ h.pc = "fundWrite"
    /\ CopiesIn(h, hook) = 2
    /\ boardStatus[dreamBoardId[h.cid]] = "active"

(***************************************************************************)
(* The status mappings.                                                    *)
(***************************************************************************)
SuccessVocabulary(provider) == IF provider = "ozow" THEN OzowSuccess ELSE SnapScanSuccess

\* C33 (status mapping default): mapOzowStatus and mapSnapScanStatus return
\* completed only for a status string of the success vocabulary and failed
\* only for one of the failure vocabulary, compared without regard to case,
\* and return processing for a missing status and for every string that is in
\* neither vocabulary.
StatusMappingDefault ==
  mapped # <<>> =>
    LET normalized == toLowerCase(mapped.raw)
        known == SuccessVocabulary(mapped.provider) \cup FailureVocabulary
    IN /\ mapped.status = "completed" =>
            ~missing(mapped.raw) /\ normalized \in SuccessVocabulary(mapped.provider)
       /\ mapped.status = "failed" =>
            ~missing(mapped.raw) /\ normalized \in FailureVocabulary
       /\ missing(mapped.raw) \/ normalized \notin known => mapped.status = "processing"

(***************************************************************************)
(* What a run of the reconciliation job reads and writes.                  *)
(***************************************************************************)
Reconcilable == {"pending", "processing"}

\* the contributions the run has in hand: its current one and those to come
InHand ==
  {run.todo[i] : i \in 1..Len(run.todo)} \cup
  UNION {{run.groups[g].members[i] : i \in 1..Len(run.groups[g].members)} :
           g \in 1..Len(run.groups)}

\* C34 (minimum-age buffer): what a run decides on, updates and counts is what
\* its two window queries returned.  Each query returns contributions that are
\* pending or processing when it is made and were created before the cutoff,
\* which is `now` minus the minimum-age buffer; a contribution created at or
\* after the cutoff, or with another status at query time, is not updated and
\* not counted by the run.
MinimumAge ==
  /\ [](run.pc \notin {"idle", "done"} =>
          /\ run.cutoff = run.now - MinimumAgeBuffer
          /\ \A c \in run.primarySet \cup run.longTailSet :
               createdAt[c] < run.now - MinimumAgeBuffer
          /\ InHand \subseteq PassSet
          /\ run.scanned = Cardinality(PassSet))
  /\ [][/\ run.pc = "idle" /\ run'.pc # "idle" =>
            \A c \in run'.primarySet : paymentStatus[c] \in Reconcilable
        /\ run.pc = "longTail" /\ run'.pc # "longTail" =>
            \A c \in run'.longTailSet : paymentStatus[c] \in Reconcilable
        /\ run.pc \notin {"idle", "done"} =>
            \A c \in Contribs : paymentStatus'[c] # paymentStatus[c] => c \in PassSet]_vars

\* a run has updated one contribution and is over its passes, having left alone
\* one that a webhook had completed before and a pending one created at the
\* cutoff or later
MinimumAgeWitness ==
  /\ run.pc = "finish"
  /\ run.updated + run.failed > 0
  /\ \E c, d \in Contribs :
       /\ paymentStatus[c] = "pending"
       /\ createdAt[c] >= run.cutoff
       /\ createdAt[c] <= run.now
       /\ paymentStatus[d] = "completed"
       /\ run.lookbackStart <= createdAt[d] /\ createdAt[d] < run.cutoff
       /\ d \notin run.primarySet

(***************************************************************************)
(* The counters of the report.                                             *)
(***************************************************************************)
Accounted(scanned, updated, failed, unresolved, mismatches) ==
  scanned = updated + failed + unresolved /\ mismatches <= unresolved

AccountedPass(res) ==
  Accounted(res.scanned, res.updated, res.failed, res.unresolved, Len(res.mismatches))

AccountedCounters(res) ==
  Accounted(res.scanned, res.updated, res.failed, res.unresolved, res.mismatches)

\* C35 (report accounting): in the result of each pass and in the report,
\* scanned = updated + failed + unresolved and mismatches <= unresolved, also
\* when a listing call or a store write throws part-way through a group.
ReportAccounting ==
  /\ AccountedPass(run.primary)
  /\ AccountedPass(run.longTail)
  /\ run.pc = "done" /\ run.report.status = 200 =>
       AccountedCounters(run.report) /\ AccountedCounters(run.report.longTail)

(***************************************************************************)
(* The statuses written.                                                   *)
(***************************************************************************)
WebhookStatuses == {"completed", "processing", "failed"}
JobStatuses == {"completed", "failed"}

\* C36 (statuses written): a webhook handler writes completed, processing or
\* failed, the reconciliation job writes completed or failed, and neither
\* writes pending or refunded: the mappings return nothing else, the status a
\* handler or a run is about to write is one of these, and every change of a
\* contribution's status is such a write.
StatusesWritten ==
  /\ \A provider \in Providers, raw \in VendorStatuses :
       mapStatus(provider, raw) \in WebhookStatuses
  /\ [](/\ \A h \in InFlight : h.pc = "update" => h.status \in WebhookStatuses
        /\ run.pc = "update" => run.write \in JobStatuses)
  /\ [][\A c \in Contribs :
          paymentStatus'[c] # paymentStatus[c] =>
            \/ WebhookWrites(c, paymentStatus'[c]) /\ paymentStatus'[c] \in WebhookStatuses
            \/ JobWrites(c, paymentStatus'[c]) /\ paymentStatus'[c] \in JobStatuses]_vars

\* a handler has written processing and a run of the job has then written
\* completed on one contribution and failed on another
StatusesWrittenWitness ==
  /\ run.pc = "finish"
  /\ run.primary.updated + run.longTail.updated > 0
  /\ run.primary.failed + run.longTail.failed > 0
  /\ \E c \in Contribs : paymentStatus[c] = "processing"

(***************************************************************************)
(* Refunded contributions.                                                 *)
(***************************************************************************)
\* C37 (refunded contributions are not resurrected): a contribution whose
\* paymentStatus is refunded is not changed by a webhook handler nor by the
\* reconciliation job.
RefundedStays ==
  [][\A c \in Contribs :
       paymentStatus[c] = "refunded" => paymentStatus'[c] = "refunded"]_vars

(***************************************************************************)
(* Payout automation: requests to the provider and failures after them.    *)
(***************************************************************************)
\* C38 (at-most-once payout): over the calls of executeAutomatedPayout made for
\* one payout, the provider receives at most one request; a call on a payout
\* that is completed returns completed without provider call, write or audit
\* event.
AtMostOncePayout ==
  /\ ledger <= 1
  /\ exec.pc = "done" /\ exec.returned = "completed" /\ exec.result = NoProviderResult =>
       /\ exec.providerCalls = 0 /\ exec.writes = 0 /\ exec.audits = <<>>
       /\ exec.completeCalls = <<>> /\ exec.failCalls = <<>>

\* C39 (provider success is never recorded as failure): in a call where the
\* provider answered completed, failPayout is not called, also when
\* completePayout or the audit write throws afterwards.
ProviderSuccessKept ==
  exec.result.status = "completed" => exec.failCalls = <<>>

\* C40: retry-after is sufficient: a request that was denied with
\* retryAfterSeconds = t and is made again t seconds later, with no other
\* request for the key in between, is allowed
RetryAfterSufficient ==
  [][\A call \in Calling :
       (call.via = "retry" /\ call.pc = "ttl" /\ calls' = calls (-) SetToBag({call}))
         => result'.allowed]_vars

====
